---- MODULE Spec2Model ----
(***************************************************************************)
(* dockcheck: the orchestration / decision engine.                         *)
(*                                                                         *)
(*   core/orchestrator.py  Orchestrator.run_pipeline, _resolve_dependencies,*)
(*                         _group_by_parallel, _execute_step_with_retry,   *)
(*                         _execute_step, _make_decision                   *)
(*   core/policy.py        PolicyEngine.evaluate, _matches_glob            *)
(*   core/confidence.py    ConfidenceScorer.score                          *)
(*                                                                         *)
(* Numbers.  A confidence, a score and a threshold are floats in [0,1];    *)
(* they are modelled as integers in units of 1/10000 (score() rounds to 4  *)
(* decimals), weights as integers in units of 1/100.  Strings that the     *)
(* code matches (commands, patterns, paths) are sequences of one-character *)
(* strings; strings the code only formats (messages) are records of the    *)
(* values formatted into them.                                             *)
(***************************************************************************)
EXTENDS Integers, Sequences, FiniteSets, TLC

VARIABLES
    steps,          \* pipeline.steps: the list of StepConfig
    ctx,            \* the run context: commands, file_paths
    policy,         \* the loaded Policy of the PolicyEngine
    max_retries,    \* Orchestrator._max_retries
    pc,             \* position of run_pipeline / _resolve_dependencies
    completed,      \* _resolve_dependencies: names already placed
    remaining,      \* _resolve_dependencies: steps not yet placed
    layers,         \* _resolve_dependencies: the layers built so far
    error,          \* the exception raised to the caller, or NoError
    layer_idx,      \* run_pipeline: index of the layer being executed
    groups,         \* run_pipeline: sub-groups of the current layer
    group_idx,      \* run_pipeline: index of the sub-group being executed
    status,         \* per step: "pending", "checking", "running", "finished"
    attempts,       \* per step: _execute_step calls made (attempts)
    last,           \* per step: "result" of _execute_step_with_retry
    produced,       \* per step: what its most recently ended attempt produced
    dispatched,     \* per step: number of dispatcher.dispatch calls
    evals,          \* number of PolicyEngine.evaluate calls of the run
    step_results,   \* run_pipeline: name -> recorded AgentResult
    block_reasons,  \* run_pipeline: list of block reasons
    notified,       \* the notifier's calls, in order
    result,         \* the returned PipelineResult, or NoResult
    call,           \* a function called on its own: its name and arguments
    frame,          \* the local variables of that call while it runs
    ret             \* what that call returned

vars == <<steps, ctx, policy, max_retries, pc, completed, remaining, layers,
          error, layer_idx, groups, group_idx, status, attempts, last,
          produced, dispatched, evals, step_results, block_reasons, notified, result,
          call, frame, ret>>

\* None, for a parallel_group (a string otherwise)
Null == "<None>"
NoError == [kind |-> "none"]
\* no AgentResult / PipelineResult yet
NoResult == [kind |-> "none"]
\* no function was called on its own
NoCall == [op |-> "none"]
\* the call has no local variables of interest
NoFrame == [kind |-> "none"]

\* ---------------------------------------------------------------- utilities

Range(s) == {s[i] : i \in 1..Len(s)}

Max2Second(a, b) == b

Max2(a, b) == IF a >= b THEN a ELSE b

Min2(a, b) == IF a <= b THEN a ELSE b

RECURSIVE SumSeq(_)
SumSeq(s) == IF s = <<>> THEN 0 ELSE Head(s) + SumSeq(Tail(s))

\* list.remove(x): drop the first element equal to x
RECURSIVE RemoveFirst(_, _)
RemoveFirst(s, x) ==
    IF s = <<>> THEN <<>>
    ELSE IF Head(s) = x THEN Tail(s)
    ELSE <<Head(s)>> \o RemoveFirst(Tail(s), x)

RECURSIVE RemoveAll(_, _)
RemoveAll(s, xs) ==
    IF xs = <<>> THEN s ELSE RemoveAll(RemoveFirst(s, Head(xs)), Tail(xs))

StepNamesOf(ss) == [i \in 1..Len(ss) |-> ss[i].name]

\* ------------------------------------------------- _resolve_dependencies

UnknownRefsSkipped(ss) == {}

\* the pre-pass: the (step, dep) positions whose dep is no step's name
UnknownRefs(ss) ==
    UNION {{<<i, j>> : j \in {k \in 1..Len(ss[i].depends_on) :
                                ss[i].depends_on[k] \notin Range(StepNamesOf(ss))}}
           : i \in 1..Len(ss)}

\* the first of them in list order: the one the loops reach first
FirstUnknownRef(ss) ==
    CHOOSE r \in UnknownRefs(ss) :
        \A q \in UnknownRefs(ss) :
            r[1] < q[1] \/ (r[1] = q[1] /\ r[2] <= q[2])

UnknownDependencyError(ss) ==
    LET r == FirstUnknownRef(ss)
    IN [kind |-> "unknown_dependency",
        step |-> ss[r[1]].name,
        dep  |-> ss[r[1]].depends_on[r[2]]]

\* ready = [s for s in remaining if all(d in completed for d in s.depends_on)]
IsReadyUnchecked(s, done) == TRUE

IsReadyAny(s, done) ==
    s.depends_on = <<>> \/ \E d \in Range(s.depends_on) : d \in done

IsReady(s, done) == \A d \in Range(s.depends_on) : d \in done

ReadySteps(rem, done) == SelectSeq(rem, LAMBDA s : IsReady(s, done))

CyclicDependencyErrorAllSteps(rem) ==
    [kind |-> "cyclic", names |-> StepNamesOf(steps)]

CyclicDependencyError(rem) == [kind |-> "cyclic", names |-> StepNamesOf(rem)]

\* ------------------------------------------------------ _group_by_parallel

\* the OrderedDict key of a step: its group tag, or a bucket of its own
GroupKey(s) ==
    IF s.parallel_group = Null THEN "__solo_" \o s.name
    ELSE s.parallel_group

\* the OrderedDict groups after the loop over the layer, as its items in
\* insertion order: assigning to a key that is present keeps its position
RECURSIVE GroupInto(_, _)
GroupInto(buckets, layer) ==
    IF layer = <<>> THEN buckets
    ELSE LET step == Head(layer)
             key == GroupKey(step)
             at == {k \in 1..Len(buckets) : buckets[k].key = key}
             pos == CHOOSE k \in at : TRUE
         IN GroupInto(
                IF step.parallel_group = Null
                THEN IF at = {}
                     THEN Append(buckets, [key |-> key, members |-> <<step>>])
                     ELSE [buckets EXCEPT ![pos].members = <<step>>]
                ELSE IF at = {}
                     THEN Append(buckets, [key |-> key, members |-> <<step>>])
                     ELSE [buckets EXCEPT ![pos].members = Append(@, step)],
                Tail(layer))

GroupByParallel(layer) ==
    LET buckets == GroupInto(<<>>, layer)
    IN [k \in 1..Len(buckets) |-> buckets[k].members]

\* ---------------------------------------------------------- _make_decision

MakeDecisionInclusive(pr, thresholds) ==
    IF pr.blocked THEN "block"
    ELSE IF pr.confidence <= thresholds.notify_human THEN "block"
    ELSE IF pr.confidence <= thresholds.auto_deploy_staging THEN "notify"
    ELSE "deploy"

MakeDecision(pr, thresholds) ==
    IF pr.blocked THEN "block"
    ELSE IF pr.confidence < thresholds.notify_human THEN "block"
    ELSE IF pr.confidence < thresholds.auto_deploy_staging THEN "notify"
    ELSE "deploy"

\* ------------------------------------------------------------ python dict

\* An insertion-ordered dict is a sequence of <<key, value>> pairs.
DictKeys(d) == [i \in 1..Len(d) |-> d[i][1]]

DictHas(d, k) == \E i \in 1..Len(d) : d[i][1] = k

DictGet(d, k) == d[CHOOSE i \in 1..Len(d) : d[i][1] = k][2]

\* d[k] = v: replace in place, or append
DictSet(d, k, v) ==
    IF DictHas(d, k)
    THEN [i \in 1..Len(d) |-> IF d[i][1] = k THEN <<k, v>> ELSE d[i]]
    ELSE Append(d, <<k, v>>)

RECURSIVE DictFromPairs(_)
DictFromPairs(ps) ==
    IF ps = <<>> THEN <<>>
    ELSE DictSet(DictFromPairs(SubSeq(ps, 1, Len(ps) - 1)),
                 ps[Len(ps)][1], ps[Len(ps)][2])

\* ------------------------------------------------ ConfidenceScorer.score

DEFAULT_WEIGHTS ==
    <<<<"analyze", 25>>, <<"test", 35>>, <<"security", 20>>, <<"verify", 20>>>>

\* self.weights.get(step, 0.1)
DefaultWeight == 10

WeightOfUnknownZero(weights, step) ==
    IF DictHas(weights, step) THEN DictGet(weights, step) ELSE 0

WeightOf(weights, step) ==
    IF DictHas(weights, step) THEN DictGet(weights, step) ELSE DefaultWeight

\* self.weights = weights or DEFAULT_WEIGHTS
ScorerWeights(weights) == IF weights = <<>> THEN DEFAULT_WEIGHTS ELSE weights

\* 0.1 per incomplete step, in units of 1/10000
IncompletePenalty == 1000

\* round(x, 4) of the rational num/den (den > 0), already in units of 1/10000
RoundHalfEven(num, den) ==
    LET q == num \div den
        r == num % den
    IN IF 2 * r < den THEN q
       ELSE IF 2 * r > den THEN q + 1
       ELSE IF q % 2 = 0 THEN q ELSE q + 1

HasSeverityFirstFinding(results, sev) ==
    \E i \in 1..Len(results) :
        /\ results[i].findings # <<>>
        /\ results[i].findings[1].severity = sev

HasSeverity(results, sev) ==
    \E i \in 1..Len(results) :
        \E j \in 1..Len(results[i].findings) :
            results[i].findings[j].severity = sev

HasCriticalOnEscalate(results) ==
    \E i \in 1..Len(results) :
        /\ results[i].action_needed = "escalate"
        /\ \E j \in 1..Len(results[i].findings) :
               results[i].findings[j].severity = "critical"

HasCritical(results) == HasSeverity(results, "critical")

Score(results, weights) ==
    IF results = <<>>
    THEN [score |-> 0, reason |-> "no_results", step_scores |-> <<>>,
          has_critical |-> FALSE, has_errors |-> FALSE,
          incomplete_steps |-> <<>>]
    ELSE
    LET step_scores ==
            DictFromPairs([i \in 1..Len(results) |->
                              <<results[i].step, results[i].confidence>>])
        incomplete ==
            StepNamesOf(SelectSeq(results, LAMBDA r : ~r.completed))
        incomplete_steps == [i \in 1..Len(incomplete) |-> incomplete[i]]
        has_critical == HasCritical(results)
        has_errors == HasSeverity(results, "error")
        total_weight ==
            SumSeq([i \in 1..Len(step_scores) |->
                        WeightOf(weights, step_scores[i][1])])
        weighted_sum ==
            SumSeq([i \in 1..Len(step_scores) |->
                        step_scores[i][2] * WeightOf(weights, step_scores[i][1])])
        \* raw_score as the rational n0 / d0
        n0 == IF total_weight = 0 THEN 0
              ELSE IF total_weight < 0 THEN 0 - weighted_sum ELSE weighted_sum
        d0 == IF total_weight = 0 THEN 1
              ELSE IF total_weight < 0 THEN 0 - total_weight ELSE total_weight
        n1 == IF incomplete_steps # <<>>
              THEN Max2(0, n0 - IncompletePenalty * Len(incomplete_steps) * d0)
              ELSE n0
        n2 == IF has_errors THEN 4 * n1 ELSE n1
        d2 == IF has_errors THEN 5 * d0 ELSE d0
        final_score == RoundHalfEven(Min2(10000 * d2, Max2(0, n2)), d2)
    IN IF has_critical
       THEN [score |-> 0, reason |-> "critical", step_scores |-> step_scores,
             has_critical |-> TRUE, has_errors |-> has_errors,
             incomplete_steps |-> incomplete_steps]
       ELSE [score |-> final_score,
             reason |-> IF incomplete_steps # <<>> \/ has_errors
                        THEN "penalties" ELSE "all_completed",
             step_scores |-> step_scores,
             has_critical |-> has_critical, has_errors |-> has_errors,
             incomplete_steps |-> incomplete_steps]

\* _agent_result_to_step_result: the scorer's view of a recorded result
AgentResultToStepResult(step_name, r) ==
    [step |-> step_name, name |-> step_name,
     completed |-> r.completed, confidence |-> r.confidence,
     turns_used |-> r.turns_used, summary |-> r.summary,
     findings |-> r.findings,
     action_needed |-> IF r.action_needed \in {"none", "retry", "escalate"}
                       THEN r.action_needed ELSE "none"]

\* [_agent_result_to_step_result(name, r) for name, r in step_results.items()]
StepResultList(sr) ==
    [i \in 1..Len(sr) |-> AgentResultToStepResult(sr[i][1], sr[i][2])]

\* -------------------------------------------------- PolicyEngine.evaluate

\* pattern in cmd: a contiguous, case-sensitive substring test
IsSubstring(p, s) ==
    \E k \in 0..(Len(s) - Len(p)) : SubSeq(s, k + 1, k + Len(p)) = p

\* fnmatch.fnmatch on a POSIX host (normcase is the identity): "*" matches
\* any run of characters, "?" one character, anything else itself
RECURSIVE FnMatch(_, _)
FnMatch(s, p) ==
    IF p = <<>> THEN s = <<>>
    ELSE IF Head(p) = "*"
         THEN FnMatch(s, Tail(p)) \/ (s # <<>> /\ FnMatch(Tail(s), p))
    ELSE IF Head(p) = "?"
         THEN s # <<>> /\ FnMatch(Tail(s), Tail(p))
    ELSE s # <<>> /\ Head(s) = Head(p) /\ FnMatch(Tail(s), Tail(p))

\* file_path.replace("\\", "/")
SlashNormalized(path) ==
    [i \in 1..Len(path) |-> IF path[i] = "\\" THEN "/" ELSE path[i]]

\* "/".join(parts[i:]) for every i: the path from each component's start
ComponentSuffixes(path) ==
    LET n == SlashNormalized(path)
    IN {SubSeq(n, k, Len(n)) :
            k \in {1} \cup {j + 1 : j \in {i \in 1..Len(n) : n[i] = "/"}}}

MatchesGlob(file_path, pattern) ==
    IF Len(pattern) >= 3 /\ SubSeq(pattern, 1, 3) = <<"*", "*", "/">>
    THEN LET suffix == SubSeq(pattern, 4, Len(pattern))
         IN \/ FnMatch(file_path, suffix)
            \/ FnMatch(file_path, pattern)
            \/ \E sub \in ComponentSuffixes(file_path) : FnMatch(sub, suffix)
    ELSE FnMatch(file_path, pattern)

\* the (item, pattern) pairs of "for item in items: for pattern in patterns"
NestedPairs(items, patterns) ==
    [k \in 1..(Len(items) * Len(patterns)) |->
        <<items[((k - 1) \div Len(patterns)) + 1],
          patterns[((k - 1) % Len(patterns)) + 1]>>]

CommandMatches(cmds, patterns) ==
    SelectSeq(NestedPairs(cmds, patterns), LAMBDA m : IsSubstring(m[2], m[1]))

PathMatches(paths, globs) ==
    SelectSeq(NestedPairs(paths, globs), LAMBDA m : MatchesGlob(m[1], m[2]))

\* breakers that also trip at the limit itself
BreakerViolationsInclusive(breakers, container_count, cost_usd, deploys_this_hour, file_deletes) ==
    (IF container_count >= breakers.max_containers
     THEN <<[kind |-> "containers", value |-> container_count,
             max |-> breakers.max_containers]>> ELSE <<>>)
    \o (IF cost_usd >= breakers.max_cost_per_run_usd
        THEN <<[kind |-> "cost", value |-> cost_usd,
                max |-> breakers.max_cost_per_run_usd]>> ELSE <<>>)
    \o (IF deploys_this_hour >= breakers.max_deploys_per_hour
        THEN <<[kind |-> "deploys", value |-> deploys_this_hour,
                max |-> breakers.max_deploys_per_hour]>> ELSE <<>>)
    \o (IF file_deletes >= breakers.max_file_deletes_per_turn
        THEN <<[kind |-> "file_deletes", value |-> file_deletes,
                max |-> breakers.max_file_deletes_per_turn]>> ELSE <<>>)

BreakerViolations(breakers, container_count, cost_usd, deploys_this_hour, file_deletes) ==
    (IF container_count > breakers.max_containers
     THEN <<[kind |-> "containers", value |-> container_count,
             max |-> breakers.max_containers]>> ELSE <<>>)
    \o (IF cost_usd > breakers.max_cost_per_run_usd
        THEN <<[kind |-> "cost", value |-> cost_usd,
                max |-> breakers.max_cost_per_run_usd]>> ELSE <<>>)
    \o (IF deploys_this_hour > breakers.max_deploys_per_hour
        THEN <<[kind |-> "deploys", value |-> deploys_this_hour,
                max |-> breakers.max_deploys_per_hour]>> ELSE <<>>)
    \o (IF file_deletes > breakers.max_file_deletes_per_turn
        THEN <<[kind |-> "file_deletes", value |-> file_deletes,
                max |-> breakers.max_file_deletes_per_turn]>> ELSE <<>>)

VerdictOfBreakersFirst(blocked_commands, blocked_paths, breaker_violations) ==
    IF breaker_violations # <<>> THEN "fail"
    ELSE IF blocked_commands # <<>> \/ blocked_paths # <<>> THEN "block"
    ELSE "pass"

VerdictOf(blocked_commands, blocked_paths, breaker_violations) ==
    IF blocked_commands # <<>> \/ blocked_paths # <<>> THEN "block"
    ELSE IF breaker_violations # <<>> THEN "fail"
    ELSE "pass"

\* commands / file_paths: a list; None is the empty list ("if commands:")
Evaluate(pol, commands, file_paths, container_count, cost_usd, deploys_this_hour, file_deletes) ==
    LET cm == CommandMatches(commands, pol.hard_stops.commands)
        pm == PathMatches(file_paths, pol.hard_stops.critical_paths)
        blocked_commands == [i \in 1..Len(cm) |-> cm[i][1]]
        blocked_paths == [i \in 1..Len(pm) |-> pm[i][1]]
        breaker_violations ==
            BreakerViolations(pol.hard_stops.circuit_breakers, container_count,
                              cost_usd, deploys_this_hour, file_deletes)
        reasons ==
            [i \in 1..Len(cm) |->
                [kind |-> "command", item |-> cm[i][1], pattern |-> cm[i][2]]]
            \o [i \in 1..Len(pm) |->
                [kind |-> "path", item |-> pm[i][1], pattern |-> pm[i][2]]]
            \o [i \in 1..Len(breaker_violations) |->
                [kind |-> "breaker", breaker |-> breaker_violations[i]]]
    IN [verdict |-> VerdictOf(blocked_commands, blocked_paths,
                              breaker_violations),
        reasons |-> reasons,
        blocked_commands |-> blocked_commands,
        blocked_paths |-> blocked_paths,
        breaker_violations |-> breaker_violations]

\* ------------------------------------------------------------ _execute_step

\* the AgentResult synthesized when the policy pre-check says BLOCK
PolicyBlockedResult(ev) ==
    [completed |-> FALSE, confidence |-> 0, turns_used |-> 0,
     summary |-> [kind |-> "blocked_by_policy", detail |-> ev.reasons],
     action_needed |-> "escalate",
     findings |-> [i \in 1..Len(ev.reasons) |->
                      [severity |-> "critical", message |-> ev.reasons[i]]]]

DispatchErrorResultNotEscalated(exc) ==
    [completed |-> FALSE, confidence |-> 0, turns_used |-> 0,
     summary |-> [kind |-> "dispatch_error", detail |-> <<exc>>],
     action_needed |-> "none",
     findings |-> <<[severity |-> "error",
                     message |-> [kind |-> "exception", text |-> exc]]>>]

\* the AgentResult synthesized when dispatcher.dispatch raises
DispatchErrorResult(exc) ==
    [completed |-> FALSE, confidence |-> 0, turns_used |-> 0,
     summary |-> [kind |-> "dispatch_error", detail |-> <<exc>>],
     action_needed |-> "escalate",
     findings |-> <<[severity |-> "error",
                     message |-> [kind |-> "exception", text |-> exc]]>>]

\* the pre-check of _execute_step: the evaluation made, or none
PreCheckEvaluates(c) == c.commands # <<>> \/ c.file_paths # <<>>

PreCheck(pol, c) == Evaluate(pol, c.commands, c.file_paths, 0, 0, 0, 0)

PreCheckBlocksSkipped(pol, c) == FALSE

PreCheckBlocks(pol, c) ==
    PreCheckEvaluates(c) /\ PreCheck(pol, c).verdict = "block"

EscalatesIgnored(r) == FALSE

\* if result.action_needed == "escalate"
Escalates(r) == r.action_needed = "escalate"

\* while result.action_needed == "retry" and attempts <= self._max_retries
ShouldRetryOffByOne(r, n, maxr) == r.action_needed = "retry" /\ n < maxr

ShouldRetry(r, n, maxr) == r.action_needed = "retry" /\ n <= maxr

KeptResultFirst(prev, r) == IF prev = NoResult THEN r ELSE prev

\* result = await self._execute_step(step, context): the new result replaces
\* the one held
KeptResult(prev, r) == r

\* ------------------------------------------------------------------ inputs

\* step names, by position in the pipeline; the first four have a default weight
StepNameList == <<"analyze", "test", "security", "verify", "lint">>

\* a name no step of the pipeline has
UnknownName == "ghost"

\* an Orchestrator is constructed with no retries or with this many
MaxRetries == 1

\* the edges (step index, dependency name) a pipeline of n steps can have
AllEdges(n) ==
    (1..n) \X ({StepNameList[i] : i \in 1..n} \cup {UnknownName})

\* the sets of at most k edges
RECURSIVE EdgeSets(_, _)
EdgeSets(n, k) ==
    IF k = 0 THEN {{}}
    ELSE LET S == EdgeSets(n, k - 1)
         IN S \cup {s \cup {e} : s \in S, e \in AllEdges(n)}

DependsOn(i, n, edges) ==
    SelectSeq(SubSeq(StepNameList, 1, n) \o <<UnknownName>>,
              LAMBDA d : <<i, d>> \in edges)

StepConfig(i, n, edges, grp) ==
    [name |-> StepNameList[i], agent |-> "claude",
     depends_on |-> DependsOn(i, n, edges), parallel_group |-> grp]

\* the pipelines of n steps with at most k dependency edges and group tags in tags
Pipelines(n, k, tags) ==
    {[i \in 1..n |-> StepConfig(i, n, edges, grp[i])] :
        edges \in EdgeSets(n, k), grp \in [1..n -> tags]}

\* the sizes of the pipelines run_pipeline is run on
RunSizes == 0..3

\* the sizes of the pipelines run with the full range of agent results
VerdictSizes == 0..2

\* largest step list and number of dependency edges given to
\* _resolve_dependencies on its own
MaxSteps == 4

MaxEdges == 4

\* thresholds and confidences around them, for _make_decision on its own
ThresholdGrid == {0, 6000, 8000, 10000}

ConfidenceGrid == {0, 1, 5999, 6000, 6001, 7999, 8000, 8001, 9999, 10000}

\* largest number of dependency edges of a pipeline that is run
RunMaxEdges == 3

RunPipelines(sizes) ==
    UNION {Pipelines(n, RunMaxEdges, {Null, "checks"}) : n \in sizes}

\* the run contexts: nothing to check; a command the policy vetoes; a
\* harmless command with a path the policy vetoes
RunContexts ==
    {[commands |-> <<>>, file_paths |-> <<>>],
     [commands |-> <<<<"r", "m", "x">>>>, file_paths |-> <<>>],
     [commands |-> <<<<"l", "s">>>>, file_paths |-> <<<<"s", "/", "k">>>>]}

\* a harmless command and path; a vetoed command among harmless ones; a
\* vetoed path alone
VerdictContexts ==
    {[commands |-> <<<<"l", "s">>>>, file_paths |-> <<<<"a">>>>],
     [commands |-> <<<<"l", "s">>, <<"r", "m", "x">>>>, file_paths |-> <<<<"a">>>>],
     [commands |-> <<>>, file_paths |-> <<<<"k">>, <<"s", "/", "k">>>>]}

DefaultBreakers ==
    [max_containers |-> 5, max_cost_per_run_usd |-> 1000,
     max_deploys_per_hour |-> 3, max_file_deletes_per_turn |-> 10]

RunHardStops ==
    [commands |-> <<<<"r", "m">>>>,
     critical_paths |-> <<<<"*", "*", "/", "k">>>>,
     circuit_breakers |-> DefaultBreakers]

\* (notify_human, auto_deploy_staging): the defaults, both zero, misordered
RunThresholds ==
    {[notify_human |-> 6000, auto_deploy_staging |-> 8000,
      auto_promote_prod |-> 9000],
     [notify_human |-> 0, auto_deploy_staging |-> 0, auto_promote_prod |-> 0],
     [notify_human |-> 8000, auto_deploy_staging |-> 6000,
      auto_promote_prod |-> 9000]}

DefaultThresholds ==
    [notify_human |-> 6000, auto_deploy_staging |-> 8000,
     auto_promote_prod |-> 9000]

RunPolicy(th) == [hard_stops |-> RunHardStops, confidence_thresholds |-> th]

AgentFinding(sev) == [severity |-> sev, message |-> [kind |-> "agent"]]

AgentResult(done, conf, sevs, action) ==
    [completed |-> done, confidence |-> conf, turns_used |-> 1,
     summary |-> [kind |-> "agent", detail |-> <<>>],
     action_needed |-> action,
     findings |-> [i \in 1..Len(sevs) |-> AgentFinding(sevs[i])]]

\* what dispatcher.dispatch may return for an attempt: every combination of
\* completion, (confidence, findings) and a stated action_needed, and a
\* result whose action_needed is None
AgentOutcomes ==
    {AgentResult(done, cf[1], cf[2], action) :
        done \in BOOLEAN,
        cf \in {<<9500, <<>>>>, <<7000, <<"warning", "error">>>>,
                <<10000, <<"info", "critical">>>>},
        action \in {"none", "retry", "escalate"}}
    \cup {AgentResult(TRUE, 8000, <<>>, Null)}

\* the results that differ in what the scheduling reads: action_needed
SchedOutcomes ==
    {AgentResult(TRUE, 9500, <<>>, "none"),
     AgentResult(TRUE, 7000, <<"error">>, "retry"),
     AgentResult(FALSE, 3000, <<>>, "escalate")}

\* what dispatcher.dispatch may raise
DispatchErrors == {"DispatchError"}

\* the step results given to ConfidenceScorer.score on its own: up to two
\* results with different names, "lint" having no default weight
ScoreSizes == 0..2

ScoreNames == {"analyze", "test", "lint"}

ScoreStepResults(name) ==
    {AgentResultToStepResult(name, AgentResult(done, conf, sevs, "none")) :
        done \in BOOLEAN,
        conf \in {0, 5000, 9200, 10000},
        sevs \in {<<>>, <<"error">>, <<"warning", "critical">>}}

ScoreResultLists ==
    UNION {{rs \in [1..n -> UNION {ScoreStepResults(nm) : nm \in ScoreNames}] :
               \A i, j \in 1..n : i # j => rs[i].step # rs[j].step} :
           n \in ScoreSizes}

\* weight tables: none given, the defaults, custom, all zero, one negative
\* weight, weights that cancel
ScoreWeightTables ==
    {<<>>,
     DEFAULT_WEIGHTS,
     <<<<"analyze", 50>>, <<"test", 50>>>>,
     <<<<"analyze", 0>>, <<"test", 0>>, <<"lint", 0>>>>,
     <<<<"analyze", 100>>, <<"test", -50>>>>,
     <<<<"analyze", 25>>, <<"test", -25>>>>}

\* hard stops for PolicyEngine.evaluate on its own: two command patterns, one
\* of them in upper case, and two critical-path globs
EvalHardStops ==
    [commands |-> <<<<"r", "m">>, <<"D", "B">>>>,
     critical_paths |-> <<<<"*", "*", "/", "k">>, <<"*", ".", "e">>>>,
     circuit_breakers |-> DefaultBreakers]

\* command lists: none, harmless, vetoed, vetoed by both patterns, a pattern
\* in the other letter case, a vetoed command after a harmless one
EvalCommands ==
    {<<>>,
     <<<<"l", "s">>>>,
     <<<<"r", "m", "x">>>>,
     <<<<"r", "m", "D", "B">>>>,
     <<<<"d", "b", "x">>>>,
     <<<<"l", "s">>, <<"x", "D", "B">>>>}

\* path lists: none, harmless, vetoed at the top level and below a directory
EvalPaths ==
    {<<>>,
     <<<<"a">>>>,
     <<<<"k">>>>,
     <<<<"a">>, <<"s", "/", "k">>, <<"x", ".", "e">>>>}

\* each breaker metric at zero, at its limit and one above it
EvalMetrics ==
    {[container_count |-> c, cost_usd |-> u, deploys_this_hour |-> d,
      file_deletes |-> f] :
        c \in {0, DefaultBreakers.max_containers,
               DefaultBreakers.max_containers + 1},
        u \in {0, DefaultBreakers.max_cost_per_run_usd,
               DefaultBreakers.max_cost_per_run_usd + 1},
        d \in {0, DefaultBreakers.max_deploys_per_hour,
               DefaultBreakers.max_deploys_per_hour + 1},
        f \in {0, DefaultBreakers.max_file_deletes_per_turn,
               DefaultBreakers.max_file_deletes_per_turn + 1}}

\* ------------------------------------------------------------ run_pipeline

NamesOf(ss) == Range(StepNamesOf(ss))

InitRun(ss) ==
    /\ steps = ss
    /\ pc = "start"
    /\ completed = {}
    /\ remaining = <<>>
    /\ layers = <<>>
    /\ error = NoError
    /\ layer_idx = 0
    /\ groups = <<>>
    /\ group_idx = 0
    /\ status = [n \in NamesOf(ss) |-> "pending"]
    /\ attempts = [n \in NamesOf(ss) |-> 0]
    /\ last = [n \in NamesOf(ss) |-> NoResult]
    /\ produced = [n \in NamesOf(ss) |-> NoResult]
    /\ dispatched = [n \in NamesOf(ss) |-> 0]
    /\ evals = 0
    /\ step_results = <<>>
    /\ block_reasons = <<>>
    /\ notified = <<>>
    /\ result = NoResult

\* run_pipeline on every pipeline of up to three steps
Init ==
    /\ ctx \in RunContexts
    /\ policy = RunPolicy(DefaultThresholds)
    /\ max_retries \in {0, MaxRetries}
    /\ \E ss \in RunPipelines(RunSizes) : InitRun(ss)
    /\ call = NoCall
    /\ ret = NoResult
    /\ frame = NoFrame

\* run_pipeline on every pipeline of up to two steps, under every policy
InitVerdict ==
    /\ ctx \in VerdictContexts
    /\ policy \in {RunPolicy(th) : th \in RunThresholds}
    /\ max_retries \in {0, MaxRetries}
    /\ \E ss \in RunPipelines(VerdictSizes) : InitRun(ss)
    /\ call = NoCall
    /\ ret = NoResult
    /\ frame = NoFrame

\* _resolve_dependencies on every step list of up to MaxSteps steps with up to
\* MaxEdges dependency edges, unknown names and cycles included
InitResolve ==
    /\ ctx = [commands |-> <<>>, file_paths |-> <<>>]
    /\ policy = RunPolicy(DefaultThresholds)
    /\ max_retries = 1
    /\ \E n \in 0..MaxSteps : \E ss \in Pipelines(n, MaxEdges, {Null}) :
           InitRun(ss)
    /\ call = [op |-> "_resolve_dependencies"]
    /\ ret = NoResult
    /\ frame = NoFrame

\* _make_decision on every blocked flag, confidence and pair of thresholds
InitDecision ==
    /\ ctx = [commands |-> <<>>, file_paths |-> <<>>]
    /\ policy \in {RunPolicy([notify_human |-> nh, auto_deploy_staging |-> ads,
                              auto_promote_prod |-> 9000]) :
                       nh \in ThresholdGrid, ads \in ThresholdGrid}
    /\ max_retries = 1
    /\ InitRun(<<>>)
    /\ call \in {[op |-> "_make_decision",
                   pipeline_result |->
                       [success |-> ~b, confidence |-> c, step_results |-> <<>>,
                        blocked |-> b, block_reasons |-> <<>>]] :
                     b \in BOOLEAN, c \in ConfidenceGrid}
    /\ ret = NoResult
    /\ frame = NoFrame

\* PolicyEngine.evaluate on every command list, path list and breaker metrics
InitEvaluate ==
    /\ ctx = [commands |-> <<>>, file_paths |-> <<>>]
    /\ policy = [hard_stops |-> EvalHardStops,
                 confidence_thresholds |-> DefaultThresholds]
    /\ max_retries = 1
    /\ InitRun(<<>>)
    /\ call \in {[op |-> "evaluate", commands |-> cs, file_paths |-> ps,
                   metrics |-> m] :
                     cs \in EvalCommands, ps \in EvalPaths, m \in EvalMetrics}
    /\ ret = NoResult
    /\ frame = NoFrame

\* ConfidenceScorer(weights).score(results) on every list and weight table
InitScore ==
    /\ ctx = [commands |-> <<>>, file_paths |-> <<>>]
    /\ policy = RunPolicy(DefaultThresholds)
    /\ max_retries = 1
    /\ InitRun(<<>>)
    /\ call \in {[op |-> "score", results |-> rs, weights |-> w] :
                     rs \in ScoreResultLists, w \in ScoreWeightTables}
    /\ ret = NoResult
    /\ frame = NoFrame

config == <<steps, ctx, policy, max_retries, call, frame, ret>>
resolve_vars == <<completed, remaining, layers>>
loop_vars == <<layer_idx, groups, group_idx>>
step_vars == <<status, attempts, last, produced, dispatched, evals>>
out_vars == <<step_results, block_reasons, notified, result>>

\* _resolve_dependencies, the pre-pass (lines 383-395)
Validate ==
    /\ pc = "start"
    /\ IF UnknownRefs(steps) # {}
       THEN /\ error' = UnknownDependencyError(steps)
            /\ pc' = "raised"
            /\ UNCHANGED resolve_vars
       ELSE /\ completed' = {}
            /\ remaining' = steps
            /\ layers' = <<>>
            /\ pc' = "resolve"
            /\ error' = error
    /\ UNCHANGED <<config, loop_vars, step_vars, out_vars>>

\* one iteration of "while remaining" that finds ready steps (lines 397-411)
ResolveLayer ==
    /\ pc = "resolve"
    /\ remaining # <<>>
    /\ LET ready == ReadySteps(remaining, completed)
       IN /\ ready # <<>>
          /\ layers' = Append(layers, ready)
          /\ completed' = completed \cup NamesOf(ready)
          /\ remaining' = RemoveAll(remaining, ready)
    /\ UNCHANGED <<config, pc, error, loop_vars, step_vars, out_vars>>

\* the iteration that finds none (lines 402-406)
RaiseCyclic ==
    /\ pc = "resolve"
    /\ remaining # <<>>
    /\ ReadySteps(remaining, completed) = <<>>
    /\ error' = CyclicDependencyError(remaining)
    /\ pc' = "raised"
    /\ UNCHANGED <<config, resolve_vars, loop_vars, step_vars, out_vars>>

\* "return layers" and the start of the layer loop (lines 413, 217)
ResolveReturn ==
    /\ pc = "resolve"
    /\ remaining = <<>>
    /\ pc' = "layer"
    /\ layer_idx' = 0
    /\ UNCHANGED <<config, resolve_vars, error, groups, group_idx, step_vars,
                   out_vars>>

\* _execute_step up to its await: the policy pre-check, then either the
\* synthesized result or the call of dispatcher.dispatch.  prev is the result
\* _execute_step_with_retry holds so far.
StartAttempt(s, prev) ==
    /\ attempts' = [attempts EXCEPT ![s] = @ + 1]
    /\ evals' = IF PreCheckEvaluates(ctx) THEN evals + 1 ELSE evals
    /\ IF PreCheckBlocks(policy, ctx)
       THEN /\ last' = [last EXCEPT
                           ![s] = PolicyBlockedResult(PreCheck(policy, ctx))]
            /\ produced' = [produced EXCEPT
                               ![s] = PolicyBlockedResult(PreCheck(policy, ctx))]
            /\ status' = [status EXCEPT ![s] = "finished"]
            /\ dispatched' = dispatched
       ELSE /\ last' = [last EXCEPT ![s] = prev]
            /\ produced' = [produced EXCEPT ![s] = prev]
            /\ status' = [status EXCEPT ![s] = "running"]
            /\ dispatched' = [dispatched EXCEPT ![s] = @ + 1]

\* _execute_step_with_retry once an attempt has produced r (lines 438-448)
AfterAttempt(s, r) ==
    IF ShouldRetry(r, attempts[s], max_retries)
    THEN StartAttempt(s, r)
    ELSE /\ last' = [last EXCEPT ![s] = KeptResult(last[s], r)]
         /\ produced' = [produced EXCEPT ![s] = r]
         /\ status' = [status EXCEPT ![s] = "finished"]
         /\ UNCHANGED <<attempts, dispatched, evals>>

\* "for layer_idx, layer in enumerate(layers)": enter the next layer
BeginLayer ==
    /\ pc = "layer"
    /\ layer_idx < Len(layers)
    /\ groups' = GroupByParallel(layers[layer_idx + 1])
    /\ group_idx' = 1
    /\ pc' = "group"
    /\ UNCHANGED <<config, resolve_vars, error, layer_idx, step_vars, out_vars>>

\* "for group in groups", a singleton: await _execute_step_with_retry
BeginSingle ==
    /\ pc = "group"
    /\ group_idx <= Len(groups)
    /\ Len(groups[group_idx]) = 1
    /\ StartAttempt(groups[group_idx][1].name, NoResult)
    /\ pc' = "await_step"
    /\ UNCHANGED <<config, resolve_vars, error, loop_vars, out_vars>>

\* "for group in groups", several members: asyncio.gather creates the tasks
BeginGather ==
    /\ pc = "group"
    /\ group_idx <= Len(groups)
    /\ Len(groups[group_idx]) > 1
    /\ pc' = "gather"
    /\ UNCHANGED <<config, resolve_vars, error, loop_vars, step_vars, out_vars>>

\* the event loop starts the next task of the gather, in creation order
MemberStart(k) ==
    /\ pc = "gather"
    /\ k \in 1..Len(groups[group_idx])
    /\ status[groups[group_idx][k].name] = "pending"
    /\ \A j \in 1..(k - 1) : status[groups[group_idx][j].name] # "pending"
    /\ StartAttempt(groups[group_idx][k].name, NoResult)
    /\ UNCHANGED <<config, resolve_vars, error, loop_vars, pc, out_vars>>

\* dispatcher.dispatch returns r for the running attempt of s
DispatchReturns(s, r) ==
    /\ pc \in {"await_step", "gather"}
    /\ s \in DOMAIN status
    /\ status[s] = "running"
    /\ AfterAttempt(s, r)
    /\ UNCHANGED <<config, resolve_vars, error, loop_vars, pc, out_vars>>

\* dispatcher.dispatch raises exc for the running attempt of s (lines 510-523)
DispatchRaises(s, exc) ==
    /\ pc \in {"await_step", "gather"}
    /\ s \in DOMAIN status
    /\ status[s] = "running"
    /\ AfterAttempt(s, DispatchErrorResult(exc))
    /\ UNCHANGED <<config, resolve_vars, error, loop_vars, pc, out_vars>>

EscalatedReason(name, r) ==
    [kind |-> "escalated", step |-> name, summary |-> r.summary]

\* a return that skips the notifier
NotifyAndReturnSilently(event, message, pr, ok) ==
    /\ notified' = notified
    /\ result' = pr
    /\ pc' = "done"
    /\ error' = error

\* notifier.notify(event, message, context), then "return PipelineResult(...)";
\* ok: whether notify returns (it may raise: nothing catches it)
NotifyAndReturn(event, message, pr, ok) ==
    /\ notified' = Append(notified, [event |-> event, message |-> message,
                                     context |-> [confidence |-> pr.confidence]])
    /\ IF ok
       THEN /\ result' = pr
            /\ pc' = "done"
            /\ error' = error
       ELSE /\ result' = result
            /\ pc' = "raised"
            /\ error' = [kind |-> "notifier"]

\* a blocked result that still reports success
BlockedResultSuccessful(conf, sr, reasons) ==
    [success |-> TRUE, confidence |-> conf, step_results |-> sr,
     blocked |-> TRUE, block_reasons |-> reasons]

BlockedResult(conf, sr, reasons) ==
    [success |-> FALSE, confidence |-> conf, step_results |-> sr,
     blocked |-> TRUE, block_reasons |-> reasons]

\* the singleton's await returns: record, and short-circuit on escalate
\* (lines 232-256)
JoinSingle(ok) ==
    /\ pc = "await_step"
    /\ LET s == groups[group_idx][1].name
           r == last[s]
           sr == DictSet(step_results, s, r)
           reasons == Append(block_reasons, EscalatedReason(s, r))
           score == Score(StepResultList(sr), DEFAULT_WEIGHTS)
       IN /\ status[s] = "finished"
          /\ step_results' = sr
          /\ IF Escalates(r)
             THEN /\ block_reasons' = reasons
                  /\ NotifyAndReturn("block", [at |-> "step", where |-> s],
                                     BlockedResult(score.score, sr, reasons), ok)
                  /\ UNCHANGED group_idx
             ELSE /\ ok
                  /\ group_idx' = group_idx + 1
                  /\ pc' = "group"
                  /\ UNCHANGED <<block_reasons, notified, result, error>>
    /\ UNCHANGED <<config, resolve_vars, layer_idx, groups, step_vars>>

\* a gather that appends no reason for its escalated members
GatherReasonsNone(group, res) == <<>>

\* the reasons appended for the escalated members of a group, in zip order
RECURSIVE GatherReasons(_, _)
GatherReasons(group, res) ==
    IF group = <<>> THEN <<>>
    ELSE (IF Escalates(res[Head(group).name])
          THEN <<EscalatedReason(Head(group).name, res[Head(group).name])>>
          ELSE <<>>) \o GatherReasons(Tail(group), res)

GatherRecordFirst(sr, group, res) ==
    sr \o [i \in 1..Len(group) |-> <<group[i].name, res[group[1].name]>>]

\* for step, result in zip(group, group_results): step_results[step.name] = result
RECURSIVE GatherRecord(_, _, _)
GatherRecord(sr, group, res) ==
    IF group = <<>> THEN sr
    ELSE GatherRecord(DictSet(sr, Head(group).name, res[Head(group).name]),
                      Tail(group), res)

\* asyncio.gather returns once every member has finished (lines 259-269)
JoinGather ==
    /\ pc = "gather"
    /\ \A k \in 1..Len(groups[group_idx]) :
           status[groups[group_idx][k].name] = "finished"
    /\ step_results' = GatherRecord(step_results, groups[group_idx], last)
    /\ block_reasons' = block_reasons \o GatherReasons(groups[group_idx], last)
    /\ group_idx' = group_idx + 1
    /\ pc' = "group"
    /\ UNCHANGED <<config, resolve_vars, error, layer_idx, groups, step_vars,
                   notified, result>>

\* after the groups of a layer: the block check (lines 271-290)
EndLayer(ok) ==
    /\ pc = "group"
    /\ group_idx > Len(groups)
    /\ IF block_reasons # <<>>
       THEN /\ NotifyAndReturn(
                   "block", [at |-> "layer", where |-> layer_idx],
                   BlockedResult(
                       Score(StepResultList(step_results), DEFAULT_WEIGHTS).score,
                       step_results, block_reasons), ok)
            /\ UNCHANGED layer_idx
       ELSE /\ ok
            /\ layer_idx' = layer_idx + 1
            /\ pc' = "layer"
            /\ UNCHANGED <<notified, result, error>>
    /\ UNCHANGED <<config, resolve_vars, groups, group_idx, step_vars,
                   step_results, block_reasons>>

\* after the last layer: aggregate, decide, notify, return (lines 292-356)
Finish(ok) ==
    /\ pc = "layer"
    /\ layer_idx = Len(layers)
    /\ LET confidence_score ==
               Score(StepResultList(step_results), DEFAULT_WEIGHTS)
           final_confidence == confidence_score.score
           reasons == IF confidence_score.has_critical
                      THEN Append(block_reasons, [kind |-> "critical_finding"])
                      ELSE block_reasons
           decision ==
               MakeDecision([success |-> reasons = <<>>,
                             confidence |-> final_confidence,
                             step_results |-> step_results,
                             blocked |-> reasons # <<>>,
                             block_reasons |-> reasons],
                            policy.confidence_thresholds)
       IN /\ block_reasons' = reasons
          /\ IF decision = "block"
             THEN NotifyAndReturn(
                      "block", [at |-> "decision", where |-> 0],
                      BlockedResult(
                          final_confidence, step_results,
                          IF reasons # <<>> THEN reasons
                          ELSE <<[kind |-> "below_threshold",
                                  confidence |-> final_confidence]>>), ok)
             ELSE IF decision = "notify"
             THEN NotifyAndReturn(
                      "notify", [at |-> "decision", where |-> 0],
                      [success |-> FALSE, confidence |-> final_confidence,
                       step_results |-> step_results, blocked |-> FALSE,
                       block_reasons |-> <<[kind |-> "human_review",
                                            confidence |-> final_confidence]>>],
                      ok)
             ELSE NotifyAndReturn(
                      "deploy", [at |-> "decision", where |-> 0],
                      [success |-> TRUE, confidence |-> final_confidence,
                       step_results |-> step_results, blocked |-> FALSE,
                       block_reasons |-> <<>>], ok)
    /\ UNCHANGED <<config, resolve_vars, loop_vars, step_vars, step_results>>

\* _resolve_dependencies
ResolveNext ==
    \/ Validate
    \/ ResolveLayer
    \/ RaiseCyclic
    \/ ResolveReturn

\* the layer loop of run_pipeline, but for the dispatcher's answers
LoopNext ==
    \/ BeginLayer
    \/ BeginSingle
    \/ BeginGather
    \/ \E k \in 1..Len(StepNameList) : MemberStart(k)
    \/ \E ok \in BOOLEAN : JoinSingle(ok)
    \/ JoinGather
    \/ \E ok \in BOOLEAN : EndLayer(ok)
    \/ \E ok \in BOOLEAN : Finish(ok)

Next ==
    \/ ResolveNext
    \/ LoopNext
    \/ \E s \in Range(StepNameList), r \in SchedOutcomes : DispatchReturns(s, r)
    \/ \E s \in Range(StepNameList), e \in DispatchErrors : DispatchRaises(s, e)

NextVerdict ==
    \/ ResolveNext
    \/ LoopNext
    \/ \E s \in Range(StepNameList), r \in AgentOutcomes : DispatchReturns(s, r)
    \/ \E s \in Range(StepNameList), e \in DispatchErrors : DispatchRaises(s, e)

\* a direct call of _make_decision
MakeDecisionCall ==
    /\ call.op = "_make_decision"
    /\ ret = NoResult
    /\ ret' = [value |-> MakeDecision(call.pipeline_result,
                                      policy.confidence_thresholds)]
    /\ UNCHANGED <<steps, ctx, policy, max_retries, call, frame, pc, error,
                   resolve_vars, loop_vars, step_vars, out_vars>>

NextDecision == MakeDecisionCall

\* a direct call of ConfidenceScorer.score
ScoreCall ==
    /\ call.op = "score"
    /\ ret = NoResult
    /\ ret' = Score(call.results, ScorerWeights(call.weights))
    /\ UNCHANGED <<steps, ctx, policy, max_retries, call, frame, pc, error,
                   resolve_vars, loop_vars, step_vars, out_vars>>

NextScore == ScoreCall

SpecScore == InitScore /\ [][NextScore]_vars

\* the scorer on its own and inside run_pipeline
InitConfidence == InitScore \/ InitVerdict

NextConfidence ==
    \/ ScoreCall
    \/ (call = NoCall /\ NextVerdict)

SpecConfidence == InitConfidence /\ [][NextConfidence]_vars

\* a direct call of PolicyEngine.evaluate
EvaluateCall ==
    /\ call.op = "evaluate"
    /\ ret = NoResult
    /\ ret' = Evaluate(policy, call.commands, call.file_paths,
                       call.metrics.container_count, call.metrics.cost_usd,
                       call.metrics.deploys_this_hour,
                       call.metrics.file_deletes)
    /\ UNCHANGED <<steps, ctx, policy, max_retries, call, frame, pc, error,
                   resolve_vars, loop_vars, step_vars, out_vars>>

NextEvaluate == EvaluateCall

SpecEvaluate == InitEvaluate /\ [][NextEvaluate]_vars

Spec == Init /\ [][Next]_vars

SpecResolve == InitResolve /\ [][ResolveNext]_vars

SpecDecision == InitDecision /\ [][NextDecision]_vars

SpecVerdict == InitVerdict /\ [][NextVerdict]_vars

\* ============================================================== properties

\* ---- the dependency graph of the pipeline, read off the step list

DirectDeps(n) ==
    UNION {Range(steps[i].depends_on) : i \in {j \in 1..Len(steps) : steps[j].name = n}}

RECURSIVE DepClosure(_, _)
DepClosure(S, k) ==
    IF k = 0 THEN S
    ELSE DepClosure(S \cup UNION {DirectDeps(n) : n \in S}, k - 1)

\* everything n depends on, directly or through other steps
AllDeps(n) == DepClosure(DirectDeps(n), Len(steps))

HasUnknownDependency == \E n \in NamesOf(steps) : ~(DirectDeps(n) \subseteq NamesOf(steps))

OnCycle(n) == n \in AllDeps(n)

HasCycle == \E n \in NamesOf(steps) : OnCycle(n)

\* on a cycle, or depending on a step that is
StuckOnCycle(n) == OnCycle(n) \/ \E m \in AllDeps(n) : OnCycle(m)

SetMax(S) == CHOOSE m \in S : \A x \in S : x <= m

\* the positions at which a step name occurs in the layers
Placements(n) ==
    {<<k, j>> \in (1..Len(layers)) \X (1..Len(steps)) :
        j <= Len(layers[k]) /\ layers[k][j].name = n}

\* the (0-based) index of the layer a placed step is in
LayerOf(n) == (CHOOSE k \in 1..Len(layers) : n \in NamesOf(layers[k])) - 1

\* _resolve_dependencies has returned the layers
Resolved == pc \in {"layer", "group", "await_step", "gather", "done"}
            \/ (pc = "raised" /\ error.kind = "notifier")

SameSubGroup(a, b) ==
    /\ LayerOf(a.name) = LayerOf(b.name)
    /\ a.parallel_group # Null
    /\ a.parallel_group = b.parallel_group

IsSingleton(i) ==
    \A j \in 1..Len(steps) : j # i => ~SameSubGroup(steps[i], steps[j])

Started(n) == attempts[n] > 0

Recorded(n) == DictHas(step_results, n)

HasCriticalFinding(r) ==
    \E j \in 1..Len(r.findings) : r.findings[j].severity = "critical"

\* ---- C1
\* C1: when the context's commands or file_paths make evaluate return BLOCK,
\* the dispatcher is never invoked; every attempted step has the synthesized
\* result (completed=false, confidence 0, escalate, one CRITICAL finding per
\* policy reason), and a run that attempted a step returns blocked=True.
C1_PolicyBlockNeverDispatches ==
    LET ev == Evaluate(policy, ctx.commands, ctx.file_paths, 0, 0, 0, 0)
    IN ev.verdict = "block" =>
          /\ \A s \in DOMAIN status : dispatched[s] = 0
          /\ \A s \in DOMAIN status :
                Started(s) =>
                    /\ status[s] = "finished"
                    /\ attempts[s] = 1
                    /\ ~last[s].completed
                    /\ last[s].confidence = 0
                    /\ last[s].action_needed = "escalate"
                    /\ Len(last[s].findings) = Len(ev.reasons)
                    /\ Len(ev.reasons) >= 1
                    /\ \A i \in 1..Len(ev.reasons) :
                          /\ last[s].findings[i].severity = "critical"
                          /\ last[s].findings[i].message = ev.reasons[i]
          /\ (pc = "done" /\ \E s \in DOMAIN status : Started(s)) =>
                (result.blocked /\ ~result.success /\ result.confidence = 0)

C1_Witness ==
    /\ pc = "done"
    /\ Evaluate(policy, ctx.commands, ctx.file_paths, 0, 0, 0, 0).verdict = "block"
    /\ \E s \in DOMAIN status : Started(s) /\ Len(last[s].findings) = 2
    /\ policy.confidence_thresholds.notify_human = 0
    /\ result.blocked

\* ---- C2
\* C2: if a recorded step result of a returned run holds a CRITICAL finding,
\* the PipelineResult has success=False, blocked=True and confidence 0.
C2_CriticalFindingBlocks ==
    (pc = "done" /\ \E i \in 1..Len(result.step_results) :
                        HasCriticalFinding(result.step_results[i][2]))
    => (~result.success /\ result.blocked /\ result.confidence = 0)

C2_Witness ==
    /\ pc = "done"
    /\ policy.confidence_thresholds.notify_human = 0
    /\ policy.confidence_thresholds.auto_deploy_staging = 0
    /\ Len(result.step_results) = 2
    /\ \A i \in 1..Len(result.step_results) :
          result.step_results[i][2].action_needed = "none"
    /\ HasCriticalFinding(result.step_results[2][2])
    /\ ~HasCriticalFinding(result.step_results[1][2])
    /\ result.step_results[1][2].confidence = 9500
    /\ result.blocked

\* ---- C3
EscalatedSingleton ==
    /\ Resolved
    /\ \E i \in 1..Len(steps) :
          /\ status[steps[i].name] = "finished"
          /\ last[steps[i].name].action_needed = "escalate"
          /\ IsSingleton(i)

\* C3: once the step of a singleton sub-group has ended with escalate, the
\* only thing run_pipeline still does is end: no step is dispatched any more,
\* and the result it returns has blocked=True and success=False.
C3_SingletonEscalationShortCircuits ==
    /\ [](pc = "done" /\ EscalatedSingleton =>
             result.blocked /\ ~result.success)
    /\ [][EscalatedSingleton =>
             /\ dispatched' = dispatched
             /\ attempts' = attempts
             /\ pc' \in {"done", "raised"}]_vars

C3_Witness ==
    /\ pc = "done"
    /\ EscalatedSingleton
    /\ result.blocked
    /\ Len(steps) = 3
    /\ Len(result.step_results) = 1
    /\ \E i, j \in 1..Len(steps) :
          /\ ~Started(steps[i].name) /\ ~Started(steps[j].name)
          /\ LayerOf(steps[i].name) = 0 /\ LayerOf(steps[j].name) = 1

C5_LayerIsLongestDependencyChain ==
    (pc = "layer" /\ call.op = "_resolve_dependencies") =>
        /\ SumSeq([k \in 1..Len(layers) |-> Len(layers[k])]) = Len(steps)
        /\ \A i \in 1..Len(steps) :
              /\ Cardinality(Placements(steps[i].name)) = 1
              /\ \E k \in 1..Len(layers) : \E j \in 1..Len(layers[k]) :
                    layers[k][j] = steps[i]
              /\ LayerOf(steps[i].name) =
                    IF steps[i].depends_on = <<>> THEN 0
                    ELSE 1 + SetMax({LayerOf(d) : d \in Range(steps[i].depends_on)})
              /\ \A d \in Range(steps[i].depends_on) :
                    LayerOf(d) < LayerOf(steps[i].name)

C5_Witness ==
    /\ pc = "layer"
    /\ call.op = "_resolve_dependencies"
    /\ Len(layers) = 3
    /\ \E i \in 1..Len(steps) :
          \E d, e \in Range(steps[i].depends_on) :
              LayerOf(d) = 0 /\ LayerOf(e) = 1 /\ LayerOf(steps[i].name) = 2

\* ---- C6
\* C6: when every depends_on name resolves and the graph has a cycle,
\* _resolve_dependencies never returns layers, and the error it raises is the
\* cyclic-dependency error listing, once each, exactly the steps on a cycle
\* and the steps that transitively depend on one.
C6_CyclicErrorNamesUnplacedSteps ==
    (call.op = "_resolve_dependencies" /\ ~HasUnknownDependency /\ HasCycle) =>
        /\ pc \in {"start", "resolve", "raised"}
        /\ pc = "raised" =>
              /\ error.kind = "cyclic"
              /\ Range(error.names) = {n \in NamesOf(steps) : StuckOnCycle(n)}
              /\ Cardinality(Range(error.names)) = Len(error.names)
              /\ Range(error.names) \cap completed = {}

C6_Witness ==
    /\ pc = "raised"
    /\ call.op = "_resolve_dependencies"
    /\ error.kind = "cyclic"
    /\ completed # {}
    /\ \E n \in Range(error.names) : ~OnCycle(n)

\* ---- C7
\* C7: when some depends_on names no step of the pipeline, the pre-pass
\* fails before any layer is computed, with the unknown-dependency error
\* naming a step and a name in its depends_on that no step has; this also
\* when the graph has a cycle.
C7_UnknownDependencyFailsInPrePass ==
    (call.op = "_resolve_dependencies" /\ HasUnknownDependency) =>
        /\ pc \in {"start", "raised"}
        /\ layers = <<>>
        /\ completed = {}
        /\ pc = "raised" =>
              /\ error.kind = "unknown_dependency"
              /\ error.dep \notin NamesOf(steps)
              /\ error.step \in NamesOf(steps)
              /\ error.dep \in DirectDeps(error.step)

C7_Witness ==
    /\ pc = "raised"
    /\ call.op = "_resolve_dependencies"
    /\ error.kind = "unknown_dependency"
    /\ HasCycle
    /\ error.step # steps[1].name

\* ---- C8
\* C8: when the dependency graph is unresolvable or cyclic, run_pipeline
\* raises the configuration error and nothing has been executed: no step is
\* attempted or dispatched, no policy evaluation and no notification is made
\* and no PipelineResult exists.
C8_ConfigurationErrorBeforeExecution ==
    (call = NoCall /\ (HasUnknownDependency \/ HasCycle)) =>
        /\ pc \in {"start", "resolve", "raised"}
        /\ pc = "raised" => error.kind \in {"unknown_dependency", "cyclic"}
        /\ \A s \in DOMAIN status :
              attempts[s] = 0 /\ dispatched[s] = 0 /\ status[s] = "pending"
        /\ evals = 0
        /\ notified = <<>>
        /\ step_results = <<>>
        /\ result = NoResult

C8_Witness ==
    /\ call = NoCall
    /\ pc = "raised"
    /\ error.kind = "cyclic"
    /\ completed # {}
    /\ PreCheckEvaluates(ctx)
    /\ result = NoResult

\* ---- C9
\* C9: _make_decision returns "block" for a blocked result; otherwise "block"
\* below notify_human, otherwise "notify" below auto_deploy_staging, otherwise
\* "deploy"; a confidence equal to notify_human is not blocked by the
\* threshold; one equal to auto_deploy_staging deploys when it is not below
\* notify_human and is blocked when it is.
C9_DecisionFirstMatchingRule ==
    (call.op = "_make_decision" /\ ret # NoResult) =>
        LET pr == call.pipeline_result
            c == pr.confidence
            nh == policy.confidence_thresholds.notify_human
            ads == policy.confidence_thresholds.auto_deploy_staging
        IN /\ ret.value \in {"block", "notify", "deploy"}
           /\ pr.blocked => ret.value = "block"
           /\ (~pr.blocked /\ c < nh) => ret.value = "block"
           /\ (~pr.blocked /\ c >= nh /\ c < ads) => ret.value = "notify"
           /\ (~pr.blocked /\ c >= nh /\ c >= ads) => ret.value = "deploy"
           /\ (~pr.blocked /\ c = nh) => ret.value # "block"
           /\ (~pr.blocked /\ c = ads /\ c >= nh) => ret.value = "deploy"
           /\ (~pr.blocked /\ c = ads /\ c < nh) => ret.value = "block"

C9_Witness ==
    /\ call.op = "_make_decision"
    /\ ret # NoResult
    /\ ~call.pipeline_result.blocked
    /\ policy.confidence_thresholds.notify_human
           > policy.confidence_thresholds.auto_deploy_staging
    /\ call.pipeline_result.confidence
           = policy.confidence_thresholds.auto_deploy_staging
    /\ ret.value = "block"

\* C9 as stated: every unblocked result whose confidence equals
\* auto_deploy_staging is decided "deploy", whatever notify_human is.
C9_EqualAutoDeployAlwaysDeploys ==
    (/\ call.op = "_make_decision"
     /\ ret # NoResult
     /\ ~call.pipeline_result.blocked
     /\ call.pipeline_result.confidence
            = policy.confidence_thresholds.auto_deploy_staging)
    => ret.value = "deploy"

\* ---- C10
\* C10: a step is dispatched again exactly when the attempt that just ended
\* returned "retry" and fewer than max_retries retries have been made; so a
\* step makes at most 1 + max_retries attempts, exactly that many when its
\* last attempt still says "retry", and the attempt that returns anything
\* else (a policy-blocked or failed dispatch included) is its last.
C10_RetryOnlyOnRetryUpToMax ==
    /\ [](\A s \in DOMAIN status :
             /\ attempts[s] <= 1 + max_retries
             /\ dispatched[s] <= attempts[s]
             /\ status[s] = "pending" <=> attempts[s] = 0
             /\ status[s] = "finished" =>
                   /\ attempts[s] >= 1
                   /\ last[s].action_needed = "retry" =>
                         attempts[s] = 1 + max_retries)
    /\ [][\A s \in DOMAIN status :
             /\ (status[s] = "pending" /\ status'[s] # "pending") =>
                   attempts'[s] = 1
             /\ (status[s] = "running"
                 /\ <<status[s], attempts[s], last[s]>>'
                        # <<status[s], attempts[s], last[s]>>) =>
                   IF last'[s].action_needed = "retry"
                      /\ attempts[s] - 1 < max_retries
                   THEN /\ status'[s] = "running"
                        /\ attempts'[s] = attempts[s] + 1
                        /\ dispatched'[s] = dispatched[s] + 1
                   ELSE /\ status'[s] = "finished"
                        /\ attempts'[s] = attempts[s]
                        /\ dispatched'[s] = dispatched[s]
             /\ status[s] = "finished" =>
                   /\ attempts'[s] = attempts[s]
                   /\ dispatched'[s] = dispatched[s]
                   /\ last'[s] = last[s]]_vars

C10_Witness ==
    /\ max_retries = 1
    /\ \E s, u \in DOMAIN status :
          /\ status[s] = "finished" /\ attempts[s] = 2
          /\ last[s].action_needed = "retry"
          /\ status[u] = "finished" /\ attempts[u] = 1
          /\ last[u].action_needed = "escalate" /\ dispatched[u] = 1

\* ---- C11
\* the recorded final results of the steps, in the order of step_results
ProducedList(sr) ==
    [i \in 1..Len(sr) |-> AgentResultToStepResult(sr[i][1], produced[sr[i][1]])]

\* C11: what is recorded for a step is what its last attempt produced, under
\* one entry per step; the confidence returned is the score of those last
\* results alone, and a step has an escalation reason exactly when its last
\* attempt said "escalate".
C11_RecordedResultIsLastAttempt ==
    /\ \A s \in DOMAIN status :
          /\ status[s] = "finished" => last[s] = produced[s]
          /\ Recorded(s) =>
                /\ status[s] = "finished"
                /\ DictGet(step_results, s) = produced[s]
                /\ Cardinality({i \in 1..Len(step_results) :
                                   step_results[i][1] = s}) = 1
    /\ Len(block_reasons) <= Len(step_results) + 1
    /\ \A s \in DOMAIN status :
          Cardinality({i \in 1..Len(block_reasons) :
                          /\ block_reasons[i].kind = "escalated"
                          /\ block_reasons[i].step = s})
              = IF Recorded(s) /\ produced[s].action_needed = "escalate"
                THEN 1 ELSE 0
    /\ pc = "done" =>
          /\ result.step_results = step_results
          /\ result.confidence
                 = Score(ProducedList(step_results), DEFAULT_WEIGHTS).score

C11_Witness ==
    /\ pc = "done"
    /\ result.success
    /\ result.confidence = 9500
    /\ \E s \in DOMAIN status :
          /\ attempts[s] = 2
          /\ Recorded(s)
          /\ produced[s].action_needed = "none"

\* ---- C12
\* the step's last attempt ended with dispatcher.dispatch raising
DispatchFailed(s) ==
    produced[s] # NoResult /\ produced[s].summary.kind = "dispatch_error"

\* C12: an exception of the dispatcher never leaves run_pipeline: the step's
\* attempt ends with a result that is not completed, has confidence 0 and
\* says "escalate", the step is not retried, and the PipelineResult of a run
\* in which that happened is blocked; in singleton and multi-member
\* sub-groups alike.
C12_DispatchExceptionBecomesEscalation ==
    /\ pc = "raised" => error.kind \in {"unknown_dependency", "cyclic", "notifier"}
    /\ \A s \in DOMAIN status :
          DispatchFailed(s) =>
              /\ status[s] = "finished"
              /\ last[s] = produced[s]
              /\ ~produced[s].completed
              /\ produced[s].confidence = 0
              /\ produced[s].action_needed = "escalate"
              /\ pc = "done" =>
                    /\ Recorded(s)
                    /\ DictGet(result.step_results, s) = produced[s]
                    /\ result.blocked
                    /\ ~result.success
                    /\ \E i \in 1..Len(result.block_reasons) :
                          /\ result.block_reasons[i].kind = "escalated"
                          /\ result.block_reasons[i].step = s

C12_Witness ==
    /\ pc = "done"
    /\ result.blocked
    /\ \E i, j \in 1..Len(steps) :
          /\ i # j
          /\ SameSubGroup(steps[i], steps[j])
          /\ DispatchFailed(steps[i].name)
          /\ produced[steps[j].name].action_needed = "none"
    /\ \E k \in 1..Len(steps) : IsSingleton(k) /\ Recorded(steps[k].name)

\* ---- C13
\* C13: a run of a pipeline with resolvable, acyclic dependencies has not
\* raised, and as long as it has not returned its PipelineResult it can
\* take a further step.
C13_RunReturnsAndNeverRaises ==
    (call = NoCall /\ ~HasUnknownDependency /\ ~HasCycle) =>
        /\ pc # "raised"
        /\ pc = "done" \/ ENABLED Next
        /\ pc = "done" =>
              /\ result # NoResult
              /\ result.success => ~result.blocked
              /\ result.confidence \in 0..10000

\* ---- C14
\* C14: once the notifier has been called on the terminal event, whether the
\* call returned or raised, run_pipeline has returned the PipelineResult
\* carrying the confidence it computed.
C14_NotifyFailureKeepsVerdict ==
    notified # <<>> =>
        /\ pc = "done"
        /\ result # NoResult
        /\ result.confidence = notified[Len(notified)].context.confidence
        /\ result.blocked <=> notified[Len(notified)].event = "block"
        /\ result.success <=> notified[Len(notified)].event = "deploy"

\* ---- C15
\* C15: the verdict of evaluate is BLOCK exactly when blocked_commands or
\* blocked_paths is non-empty, FAIL exactly when both are empty and
\* breaker_violations is not, PASS exactly when all three are empty; a
\* command or path that matches a hard stop gives BLOCK whatever the four
\* breaker metrics are.
C15_VerdictPrecedence ==
    (call.op = "evaluate" /\ ret # NoResult) =>
        LET hard == ret.blocked_commands # <<>> \/ ret.blocked_paths # <<>>
            broken == ret.breaker_violations # <<>>
            matched ==
                \/ \E i \in 1..Len(call.commands) :
                      \E j \in 1..Len(policy.hard_stops.commands) :
                          IsSubstring(policy.hard_stops.commands[j],
                                      call.commands[i])
                \/ \E i \in 1..Len(call.file_paths) :
                      \E j \in 1..Len(policy.hard_stops.critical_paths) :
                          MatchesGlob(call.file_paths[i],
                                      policy.hard_stops.critical_paths[j])
        IN /\ ret.verdict \in {"block", "fail", "pass"}
           /\ ret.verdict = "block" <=> hard
           /\ ret.verdict = "fail" <=> (~hard /\ broken)
           /\ ret.verdict = "pass" <=> (~hard /\ ~broken)
           /\ matched <=> hard
           /\ matched => ret.verdict = "block"
           /\ broken <=>
                 \/ call.metrics.container_count
                        > policy.hard_stops.circuit_breakers.max_containers
                 \/ call.metrics.cost_usd
                        > policy.hard_stops.circuit_breakers.max_cost_per_run_usd
                 \/ call.metrics.deploys_this_hour
                        > policy.hard_stops.circuit_breakers.max_deploys_per_hour
                 \/ call.metrics.file_deletes
                        > policy.hard_stops.circuit_breakers.max_file_deletes_per_turn

C15_Witness ==
    /\ call.op = "evaluate"
    /\ ret # NoResult
    /\ ret.verdict = "block"
    /\ Len(ret.breaker_violations) = 4
    /\ ret.blocked_commands = <<>>
    /\ Len(ret.blocked_paths) = 2

\* ---- C16
\* str.lower() on the letters the inputs use
LowerChar(c) ==
    CASE c = "D" -> "d"
      [] c = "B" -> "b"
      [] OTHER -> c

LowerCase(s) == [i \in 1..Len(s) |-> LowerChar(s[i])]

\* C16: every command in which a configured pattern occurs, letter case
\* ignored, is in blocked_commands and the verdict is BLOCK.
C16_CommandMatchIgnoresCase ==
    (call.op = "evaluate" /\ ret # NoResult) =>
        \A i \in 1..Len(call.commands) :
            (\E j \in 1..Len(policy.hard_stops.commands) :
                 IsSubstring(LowerCase(policy.hard_stops.commands[j]),
                             LowerCase(call.commands[i])))
            => /\ call.commands[i] \in Range(ret.blocked_commands)
               /\ ret.verdict = "block"

\* ---- C17
\* C17: when any finding of any step result has severity CRITICAL, score
\* returns 0 with has_critical set, whatever the confidences, weights,
\* completion flags and other findings are.
C17_CriticalFindingZeroesScore ==
    (call.op = "score" /\ ret # NoResult) =>
        LET critical ==
                \E i \in 1..Len(call.results) :
                    \E j \in 1..Len(call.results[i].findings) :
                        call.results[i].findings[j].severity = "critical"
        IN /\ critical => (ret.score = 0 /\ ret.has_critical)
           /\ ret.has_critical <=> critical

C17_Witness ==
    /\ call.op = "score"
    /\ ret # NoResult
    /\ ret.score = 0
    /\ ret.has_critical
    /\ Len(call.results) = 2
    /\ call.results[1].confidence = 10000 /\ call.results[1].completed
    /\ call.results[1].findings = <<>>
    /\ call.results[2].confidence = 10000 /\ call.results[2].completed
    /\ call.results[2].findings[2].severity = "critical"
    /\ call.weights = <<<<"analyze", 100>>, <<"test", -50>>>>

\* ---- C18
\* C18: the score returned is within [0,1] for every list of step results and
\* every weight table, 0 for the empty list and 0 when the weights of the
\* steps present add up to 0; so is the confidence of every PipelineResult
\* run_pipeline returns.
C18_ScoreWithinUnitInterval ==
    /\ (call.op = "score" /\ ret # NoResult) =>
          LET table == IF call.weights = <<>> THEN DEFAULT_WEIGHTS
                       ELSE call.weights
              total ==
                  SumSeq([i \in 1..Len(call.results) |->
                      IF \E k \in 1..Len(table) :
                             table[k][1] = call.results[i].step
                      THEN table[CHOOSE k \in 1..Len(table) :
                                     table[k][1] = call.results[i].step][2]
                      ELSE 10])
          IN /\ ret.score \in 0..10000
             /\ call.results = <<>> => ret.score = 0
             /\ total = 0 => ret.score = 0
    /\ (call = NoCall /\ pc = "done") => result.confidence \in 0..10000

C18_Witness ==
    /\ call.op = "score"
    /\ ret # NoResult
    /\ ret.score = 10000
    /\ call.weights = <<<<"analyze", 100>>, <<"test", -50>>>>
    /\ Len(call.results) = 2
    /\ call.results[1].step = "analyze" /\ call.results[1].confidence = 10000
    /\ call.results[2].step = "test" /\ call.results[2].confidence = 0
    /\ \A i \in 1..2 : call.results[i].completed /\ call.results[i].findings = <<>>

\* ---- C19
\* weight of a step name: its entry in the table, 0.1 (10/100) without one
RefWeight(table, name) ==
    IF \E k \in 1..Len(table) : table[k][1] = name
    THEN table[CHOOSE k \in 1..Len(table) : table[k][1] = name][2]
    ELSE 10

\* the reference value m2 of a result list as the fraction <<n, d>>, d > 0,
\* in units of 1/10000: the weighted mean, minus 0.1 per incomplete step
\* floored at 0, times 0.8 when an ERROR finding exists
RefFraction(results, table) ==
    LET W == SumSeq([i \in 1..Len(results) |->
                        RefWeight(table, results[i].step)])
        S == SumSeq([i \in 1..Len(results) |->
                        RefWeight(table, results[i].step)
                            * results[i].confidence])
        d == IF W < 0 THEN 0 - W ELSE W
        n == IF W < 0 THEN 0 - S ELSE S
        k == Cardinality({i \in 1..Len(results) : ~results[i].completed})
        n1 == IF n - 1000 * k * d > 0 THEN n - 1000 * k * d ELSE 0
        err == \E i \in 1..Len(results) :
                   \E j \in 1..Len(results[i].findings) :
                       results[i].findings[j].severity = "error"
    IN IF err THEN <<4 * n1, 5 * d>> ELSE <<n1, d>>

\* the fraction clamped to [0,1]
RefClamped(f) ==
    <<IF f[1] < 0 THEN 0 ELSE IF f[1] > 10000 * f[2] THEN 10000 * f[2] ELSE f[1],
      f[2]>>

\* a call of score on a non-empty list without CRITICAL finding whose
\* weights do not add up to 0, returned
ScoredByWeights ==
    /\ call.op = "score"
    /\ ret # NoResult
    /\ call.results # <<>>
    /\ ~ret.has_critical
    /\ SumSeq([i \in 1..Len(call.results) |->
                  RefWeight(ScorerWeights(call.weights),
                            call.results[i].step)]) # 0

\* C19: for a non-empty list without CRITICAL finding the score is the
\* reference value (weighted mean with weight 0.1 for unlisted names, then
\* the penalty of 0.1 per incomplete step floored at 0, then the factor 0.8
\* for an ERROR finding, then the clamp to [0,1]) rounded to 4 decimals,
\* ties to the even digit; it is 0 when the weights add up to 0.
C19_ScoreIsRoundedReference ==
    /\ ScoredByWeights =>
          LET f == RefClamped(RefFraction(call.results,
                                          ScorerWeights(call.weights)))
              diff == ret.score * f[2] - f[1]
              dist == IF diff < 0 THEN 0 - diff ELSE diff
          IN /\ 2 * dist <= f[2]
             /\ 2 * dist = f[2] => ret.score % 2 = 0
    /\ (/\ call.op = "score" /\ ret # NoResult /\ call.results # <<>>
        /\ ~ret.has_critical /\ ~ScoredByWeights) => ret.score = 0

C19_Witness ==
    /\ ScoredByWeights
    /\ Len(call.results) = 1
    /\ call.results[1].step = "lint"
    /\ call.results[1].confidence = 9200
    /\ ~call.results[1].completed
    /\ call.results[1].findings # <<>>
    /\ call.weights = <<>>
    /\ ret.score = 6560

\* C19 as stated: the score equals the clamped reference value exactly.
C19_ScoreEqualsReferenceExactly ==
    ScoredByWeights =>
        LET f == RefClamped(RefFraction(call.results,
                                        ScorerWeights(call.weights)))
        IN ret.score * f[2] = f[1]

\* ---- C20
\* C20: the members of a multi-member sub-group are recorded together, once
\* every one of them has finished its attempts, each under its own name with
\* what its own last attempt produced; the run moves on or returns only
\* then, whichever member escalated or failed and in whatever order the
\* members finished.
C20_GatherAwaitsEveryMember ==
    \A i, j \in 1..Len(steps) :
        (Resolved /\ i # j /\ SameSubGroup(steps[i], steps[j])) =>
            LET a == steps[i].name
                b == steps[j].name
            IN /\ Recorded(a) =>
                     /\ Recorded(b)
                     /\ status[a] = "finished" /\ status[b] = "finished"
                     /\ DictGet(step_results, a) = produced[a]
                     /\ DictGet(step_results, b) = produced[b]
               /\ (Started(a) /\ pc # "gather") => (Recorded(a) /\ Recorded(b))
               /\ (Started(a) /\ ~Recorded(a)) =>
                     /\ pc = "gather"
                     /\ result = NoResult
                     /\ notified = <<>>

C20_Witness ==
    /\ pc = "done"
    /\ result.blocked
    /\ \E i, j \in 1..Len(steps) :
          /\ i < j
          /\ SameSubGroup(steps[i], steps[j])
          /\ attempts[steps[i].name] = 2
          /\ produced[steps[i].name].action_needed = "none"
          /\ produced[steps[j].name].action_needed = "escalate"
          /\ DictGet(result.step_results, steps[i].name).action_needed = "none"
          /\ DictGet(result.step_results, steps[j].name).action_needed = "escalate"

\* ============================================== ParallelDispatcher.fan_out

\* the largest batch of tasks and the largest max_concurrent
MaxTasks == 3

MaxConcurrent == 2

\* the task ids of a batch; two tasks may carry the same id
TaskIds == {"security", "test"}

ParallelTask(id) == [task_id |-> id, agent |-> "codex"]

RECURSIVE TaskLists(_)
TaskLists(n) ==
    IF n = 0 THEN {<<>>}
    ELSE LET S == TaskLists(n - 1)
         IN S \cup {Append(ts, ParallelTask(id)) :
                       ts \in {x \in S : Len(x) = n - 1}, id \in TaskIds}

\* what the dispatcher may return to a task, and what it may raise
FanOutcomes ==
    {AgentResult(TRUE, 8000, <<>>, "none"),
     AgentResult(FALSE, 3000, <<"error">>, "escalate")}

FanErrors == {"Connection failed"}

\* ParallelResult(task_id=..., result=AgentStepResult(step=task_id, ...))
TaskSucceeded(task, r) ==
    [task_id |-> task.task_id,
     result |-> [step |-> task.task_id, completed |-> r.completed,
                 confidence |-> r.confidence, turns_used |-> r.turns_used,
                 summary |-> r.summary,
                 findings |-> [j \in 1..Len(r.findings) |->
                                  [severity |-> r.findings[j].severity,
                                   message |-> r.findings[j].message]],
                 action_needed |-> "none"],
     error |-> Null]

\* ParallelResult(task_id=..., error=str(e))
TaskFailed(task, e) ==
    [task_id |-> task.task_id, result |-> NoResult, error |-> e]

LockedNever(f) == FALSE

\* asyncio.Semaphore.locked(): no permit left, or somebody is waiting for one
Locked(f) == f.semaphore = 0 \/ f.waiters # <<>>

\* the tasks inside "async with semaphore"
Inside(f) == {i \in DOMAIN f.at : f.at[i] = "inside"}

GatheredByCompletion(f) == [k \in 1..Len(f.finished) |-> f.gathered[f.finished[k]]]

\* list(gathered): asyncio.gather returns the results in the order of its
\* arguments
Gathered(f) == [i \in 1..Len(f.gathered) |-> f.gathered[i]]

\* failed = [r.task_id for r in results if r.error is not None]
RECURSIVE FailedIds(_)
FailedIds(results) ==
    IF results = <<>> THEN <<>>
    ELSE IF Head(results).error # Null
         THEN <<Head(results).task_id>> \o FailedIds(Tail(results))
         ELSE FailedIds(Tail(results))

\* all(r.result is not None and r.result.completed
\*     for r in results if r.error is None)
AllCompleted(results) ==
    \A i \in 1..Len(results) :
        results[i].error = Null =>
            (results[i].result # NoResult /\ results[i].result.completed)

FanOutResultIgnoringFailures(results) ==
    [results |-> results,
     all_completed |-> AllCompleted(results),
     failed_tasks |-> FailedIds(results)]

FanOutResult(results) ==
    [results |-> results,
     all_completed |-> (AllCompleted(results) /\ Len(FailedIds(results)) = 0),
     failed_tasks |-> FailedIds(results)]

\* fan_out(tasks, max_concurrent) on every batch of up to MaxTasks tasks, with
\* and without a dispatcher
InitFanOut ==
    /\ ctx = [commands |-> <<>>, file_paths |-> <<>>]
    /\ policy = RunPolicy(DefaultThresholds)
    /\ max_retries = 1
    /\ InitRun(<<>>)
    /\ call \in {[op |-> "fan_out", tasks |-> ts, max_concurrent |-> k,
                   dispatcher |-> d] :
                     ts \in TaskLists(MaxTasks), k \in 0..MaxConcurrent,
                     d \in BOOLEAN}
    /\ frame = [semaphore |-> call.max_concurrent,
                waiters |-> <<>>,
                at |-> [i \in 1..Len(call.tasks) |-> "created"],
                gathered |-> [i \in 1..Len(call.tasks) |-> NoResult],
                finished |-> <<>>]
    /\ ret = NoResult

fan_unchanged ==
    UNCHANGED <<steps, ctx, policy, max_retries, call, pc, error,
                resolve_vars, loop_vars, step_vars, out_vars>>

\* an exception path that keeps its permit
ReleasedAfterRaiseLeaked(permits) == permits

\* "async with semaphore" left by the return in the except block: __aexit__
\* releases the permit
ReleasedAfterRaise(permits) == permits + 1

\* a task that holds a permit without a dispatcher raises RuntimeError at
\* once, which _run_task catches; it releases the permit in the same step
WithPermit(f, i) ==
    IF call.dispatcher
    THEN [f EXCEPT !.at[i] = "inside", !.semaphore = @ - 1]
    ELSE [f EXCEPT !.at[i] = "returned",
                   !.gathered[i] = TaskFailed(call.tasks[i],
                                              "No dispatcher configured"),
                   !.finished = Append(@, i)]

\* _run_task starts, in the order gather created the tasks: it takes a permit
\* or joins the waiters
RunTaskEnters(i) ==
    /\ call.op = "fan_out"
    /\ i \in DOMAIN frame.at
    /\ frame.at[i] = "created"
    /\ \A j \in 1..(i - 1) : frame.at[j] # "created"
    /\ frame' = IF Locked(frame)
                THEN [frame EXCEPT !.at[i] = "waiting",
                                   !.waiters = Append(@, i)]
                ELSE WithPermit(frame, i)
    /\ UNCHANGED ret
    /\ fan_unchanged

\* the first waiter is given a released permit
RunTaskResumes(i) ==
    /\ call.op = "fan_out"
    /\ frame.waiters # <<>>
    /\ i = Head(frame.waiters)
    /\ frame.semaphore > 0
    /\ frame' = WithPermit([frame EXCEPT !.waiters = Tail(@)], i)
    /\ UNCHANGED ret
    /\ fan_unchanged

\* dispatcher.dispatch returns to task i: lines 167-186, then the release
RunTaskDispatchReturns(i, r) ==
    /\ call.op = "fan_out"
    /\ i \in DOMAIN frame.at
    /\ frame.at[i] = "inside"
    /\ frame' = [frame EXCEPT !.at[i] = "returned",
                              !.gathered[i] = TaskSucceeded(call.tasks[i], r),
                              !.finished = Append(@, i),
                              !.semaphore = @ + 1]
    /\ UNCHANGED ret
    /\ fan_unchanged

\* dispatcher.dispatch raises in task i: lines 187-193, then the release
RunTaskDispatchRaises(i, e) ==
    /\ call.op = "fan_out"
    /\ i \in DOMAIN frame.at
    /\ frame.at[i] = "inside"
    /\ frame' = [frame EXCEPT !.at[i] = "returned",
                              !.gathered[i] = TaskFailed(call.tasks[i], e),
                              !.finished = Append(@, i),
                              !.semaphore = ReleasedAfterRaise(@)]
    /\ UNCHANGED ret
    /\ fan_unchanged

\* gather has every task's result: lines 199-214
FanOutReturns ==
    /\ call.op = "fan_out"
    /\ ret = NoResult
    /\ \A i \in DOMAIN frame.at : frame.at[i] = "returned"
    /\ ret' = FanOutResult(Gathered(frame))
    /\ UNCHANGED frame
    /\ fan_unchanged

NextFanOut ==
    \/ \E i \in 1..MaxTasks : RunTaskEnters(i)
    \/ \E i \in 1..MaxTasks : RunTaskResumes(i)
    \/ \E i \in 1..MaxTasks, r \in FanOutcomes : RunTaskDispatchReturns(i, r)
    \/ \E i \in 1..MaxTasks, e \in FanErrors : RunTaskDispatchRaises(i, e)
    \/ FanOutReturns

SpecFanOut == InitFanOut /\ [][NextFanOut]_vars

\* ---- C21
\* C21: with max_concurrent = k >= 1, never more than k tasks are inside the
\* dispatcher call at once; the tasks inside are exactly the permits taken
\* from the semaphore, whose value never goes below zero.
C21_AtMostKInside ==
    (call.op = "fan_out" /\ call.max_concurrent >= 1) =>
        /\ Cardinality(Inside(frame)) <= call.max_concurrent
        /\ frame.semaphore >= 0
        /\ Cardinality(Inside(frame)) = call.max_concurrent - frame.semaphore

C21_Witness ==
    /\ call.op = "fan_out"
    /\ call.max_concurrent >= 1
    /\ Cardinality(Inside(frame)) = call.max_concurrent
    /\ frame.waiters # <<>>
    /\ \E i \in DOMAIN frame.at :
          /\ frame.at[i] = "returned"
          /\ frame.gathered[i].error = "Connection failed"

\* ---- C22
\* C22: the FanOutResult returned holds one ParallelResult per task, the i-th
\* being the i-th task's own result with the i-th task's id, whatever the
\* order in which the tasks finished.
C22_ResultsInTaskOrder ==
    (call.op = "fan_out" /\ ret # NoResult) =>
        /\ Len(ret.results) = Len(call.tasks)
        /\ \A i \in 1..Len(call.tasks) :
              /\ ret.results[i].task_id = call.tasks[i].task_id
              /\ ret.results[i] = frame.gathered[i]

C22_Witness ==
    /\ call.op = "fan_out"
    /\ ret # NoResult
    /\ Len(call.tasks) = 3
    /\ call.tasks[1].task_id # call.tasks[3].task_id
    /\ frame.finished = <<2, 3, 1>>
    /\ ret.results[2].error # Null
    /\ ret.results[1].error = Null

\* ---- C23
\* the positions of the tasks that failed, in input order
FailedPositions(f) == {i \in DOMAIN f.gathered : f.gathered[i].error # Null}

\* C23: when the dispatch of a task raises, that task gets a ParallelResult
\* with the error and no result, and no other task changes; when it returns,
\* the task gets a result and no error. On return, failed_tasks lists the ids
\* of the failed tasks in input order, and all_completed holds exactly if no
\* task failed and every result is completed.
C23_FailureStaysWithItsTask ==
    /\ [][\A i \in 1..MaxTasks :
            /\ (\E e \in FanErrors : RunTaskDispatchRaises(i, e)) =>
                  /\ frame'.gathered[i].error \in FanErrors
                  /\ frame'.gathered[i].result = NoResult
                  /\ frame'.gathered[i].task_id = call.tasks[i].task_id
                  /\ \A j \in DOMAIN frame.at \ {i} :
                        /\ frame'.at[j] = frame.at[j]
                        /\ frame'.gathered[j] = frame.gathered[j]
            /\ (\E r \in FanOutcomes : RunTaskDispatchReturns(i, r)) =>
                  /\ frame'.gathered[i].error = Null
                  /\ frame'.gathered[i].result # NoResult
                  /\ \A j \in DOMAIN frame.at \ {i} :
                        /\ frame'.at[j] = frame.at[j]
                        /\ frame'.gathered[j] = frame.gathered[j]]_vars
    /\ []((call.op = "fan_out" /\ ret # NoResult) =>
            LET bad == FailedPositions(frame)
                failed == ret.failed_tasks
            IN /\ \A i \in DOMAIN frame.at : frame.at[i] = "returned"
               /\ Len(failed) = Cardinality(bad)
               /\ \E f \in [1..Len(failed) -> bad] :
                     /\ \A k \in 1..Len(failed) :
                           failed[k] = call.tasks[f[k]].task_id
                     /\ \A k, m \in 1..Len(failed) : k < m => f[k] < f[m]
               /\ ret.all_completed <=>
                     /\ bad = {}
                     /\ \A i \in 1..Len(ret.results) :
                           ret.results[i].result.completed)

C23_Witness ==
    /\ call.op = "fan_out"
    /\ ret # NoResult
    /\ Len(call.tasks) = 3
    /\ frame.finished = <<2, 1, 3>>
    /\ ret.failed_tasks = <<call.tasks[2].task_id>>
    /\ ret.results[1].result # NoResult /\ ret.results[1].result.completed
    /\ ret.results[3].result # NoResult /\ ret.results[3].result.completed
    /\ ~ret.all_completed

\* ===================================== agents/dispatch.py: the output parsers

\* A text the agent printed, by its structure: "blank" is empty or only
\* whitespace, "prose" is text that is neither JSON nor fenced, "fenced" is
\* a Markdown code fence around an inner text, "json" is a JSON document with
\* the value given, and "unloadable" is JSON that json.loads refuses with an
\* exception other than JSONDecodeError (nesting beyond the recursion limit,
\* an integer of more digits than int() converts). pad tells whether
\* whitespace surrounds the text.
Blank(pad) == [kind |-> "blank", pad |-> pad]

Prose(pad) == [kind |-> "prose", pad |-> pad]

Unloadable(pad) == [kind |-> "unloadable", pad |-> pad]

Fenced(t, pad) == [kind |-> "fenced", inner |-> t, pad |-> pad]

Json(v, pad) == [kind |-> "json", value |-> v, pad |-> pad]

\* JSON values: a missing key, a string holding a text, a number, an array
Absent == [type |-> "absent"]

JString(t) == [type |-> "string", text |-> t]

JNumber == [type |-> "number"]

JArray == [type |-> "array"]

\* a JSON object: whether it has the key "completed", the AgentResult it
\* validates to (NoResult when model_validate raises), and its "result" and
\* "content" values
JObject(has_completed, payload, res, content) ==
    [type |-> "object", completed |-> has_completed, payload |-> payload,
     result |-> res, content |-> content]

\* str.strip()
Strip(t) == [t EXCEPT !.pad = FALSE]

\* "not raw" after the strip
IsEmpty(t) == t.kind = "blank"

\* json.loads: the value, or the exception raised
JsonLoads(t) ==
    CASE t.kind = "json" -> [ok |-> TRUE, value |-> t.value]
      [] t.kind = "unloadable" -> [ok |-> FALSE, exc |-> "RecursionError"]
      [] OTHER -> [ok |-> FALSE, exc |-> "JSONDecodeError"]

\* isinstance(parsed, dict) and "completed" in parsed
IsResultShaped(v) == v.type = "object" /\ v.completed

\* AgentResult.model_validate does not raise
Validates(v) == v.payload # NoResult

\* str(envelope.get("result", envelope.get("content", "")))
InnerTextOf(env) ==
    LET v == IF env.result # Absent THEN env.result
             ELSE IF env.content # Absent THEN env.content
             ELSE JString(Blank(FALSE))
    IN CASE v.type = "string" -> v.text
         [] v.type = "number" -> Json(JNumber, FALSE)
         [] OTHER -> Prose(FALSE)

\* lines 67-80: the lines between the opening fence and the next fence line
StripFence(t) == IF t.kind = "fenced" THEN Strip(t.inner) ELSE t

\* AgentResult(completed=False, confidence=0.0, summary="Empty response ...")
EmptyResponse(agent, stderr) ==
    [completed |-> FALSE, confidence |-> 0, turns_used |-> 0,
     summary |-> [kind |-> "empty_response", agent |-> agent,
                  stderr |-> stderr],
     action_needed |-> "none", findings |-> <<>>]

\* AgentResult(completed=True, confidence=0.5, summary=text[:500])
PlainSummary(t) ==
    [completed |-> TRUE, confidence |-> 5000, turns_used |-> 0,
     summary |-> [kind |-> "text", text |-> t],
     action_needed |-> "none", findings |-> <<>>]

Returned(r) == [raised |-> FALSE, value |-> r]

Raised(exc) == [raised |-> TRUE, exc |-> exc]

\* _parse_claude_output (lines 31-94)
ParseClaudeOutput(raw, stderr) ==
    LET r == Strip(raw)
        outer == JsonLoads(r)
    IN IF IsEmpty(r) THEN Returned(EmptyResponse("agent", stderr))
       ELSE IF ~outer.ok
            THEN IF outer.exc = "JSONDecodeError"
                 THEN Returned(PlainSummary(r))
                 ELSE Raised(outer.exc)
       ELSE IF IsResultShaped(outer.value) /\ Validates(outer.value)
            THEN Returned(outer.value.payload)
       ELSE LET inner == StripFence(Strip(IF outer.value.type = "object"
                                          THEN InnerTextOf(outer.value)
                                          ELSE r))
                parsed == JsonLoads(inner)
            IN IF parsed.ok /\ IsResultShaped(parsed.value)
                  /\ Validates(parsed.value)
               THEN Returned(parsed.value.payload)
               ELSE Returned(PlainSummary(IF IsEmpty(inner) THEN r ELSE inner))

\* _parse_codex_output (lines 104-123)
ParseCodexOutput(raw, stderr) ==
    LET r == Strip(raw)
        parsed == JsonLoads(r)
    IN IF IsEmpty(r) THEN Returned(EmptyResponse("codex", stderr))
       ELSE IF parsed.ok /\ IsResultShaped(parsed.value)
               /\ Validates(parsed.value)
            THEN Returned(parsed.value.payload)
       ELSE Returned(PlainSummary(r))

\* parser(stdout, stderr), by the agent the dispatch variant belongs to
Parser(agent, raw, stderr) ==
    IF agent = "claude" THEN ParseClaudeOutput(raw, stderr)
    ELSE ParseCodexOutput(raw, stderr)

\* ---- the texts given to the parsers

\* the results an agent states in its JSON
StatedResults ==
    {AgentResult(TRUE, 7000, <<>>, "none"),
     AgentResult(FALSE, 9000, <<"warning">>, "retry")}

\* a result object, valid or not, and objects without a "completed" key
ResultObject(p) == JObject(TRUE, p, Absent, Absent)

Envelope(res, content) == JObject(FALSE, NoResult, res, content)

\* texts without a fence and without an envelope
BareTexts ==
    {Blank(FALSE), Prose(FALSE), Unloadable(FALSE), Json(JArray, FALSE),
     Json(JNumber, FALSE), Json(Envelope(Absent, Absent), FALSE),
     Json(ResultObject(NoResult), FALSE)}
    \cup {Json(ResultObject(p), pad) : p \in StatedResults, pad \in BOOLEAN}

\* the texts an envelope may quote
InnerTexts == BareTexts \cup {Fenced(t, FALSE) : t \in BareTexts}

PadOf(t, pad) == [t EXCEPT !.pad = pad]

\* every stdout given to a parser: bare and fenced texts, envelopes quoting
\* them under "result" or "content", envelopes whose "result" is not a
\* string, and an invalid result object that also has a "result" key
ParseTexts ==
    LET unpadded ==
            InnerTexts
            \cup {Json(Envelope(JString(t), Absent), FALSE) : t \in InnerTexts}
            \cup {Json(Envelope(Absent, JString(t)), FALSE) : t \in InnerTexts}
            \cup {Json(Envelope(JString(Prose(FALSE)), JString(t)), FALSE) :
                     t \in InnerTexts}
            \cup {Json(Envelope(v, Absent), FALSE) :
                     v \in {JNumber, JArray, ResultObject(NoResult)}}
            \cup {Json(JObject(TRUE, NoResult, JString(t), Absent), FALSE) :
                     t \in InnerTexts}
    IN {PadOf(t, pad) : t \in unpadded, pad \in BOOLEAN}

StderrTexts == {Blank(FALSE), Prose(FALSE)}

InitParse ==
    /\ ctx = [commands |-> <<>>, file_paths |-> <<>>]
    /\ policy = RunPolicy(DefaultThresholds)
    /\ max_retries = 1
    /\ InitRun(<<>>)
    /\ call \in {[op |-> op, raw |-> t, stderr |-> e] :
                   op \in {"_parse_claude_output", "_parse_codex_output"},
                   t \in ParseTexts, e \in StderrTexts}
    /\ frame = NoFrame
    /\ ret = NoResult

ParseClaudeCall ==
    /\ call.op = "_parse_claude_output"
    /\ ret = NoResult
    /\ ret' = ParseClaudeOutput(call.raw, call.stderr)
    /\ UNCHANGED frame
    /\ fan_unchanged

ParseCodexCall ==
    /\ call.op = "_parse_codex_output"
    /\ ret = NoResult
    /\ ret' = ParseCodexOutput(call.raw, call.stderr)
    /\ UNCHANGED frame
    /\ fan_unchanged

NextParse == ParseClaudeCall \/ ParseCodexCall

SpecParse == InitParse /\ [][NextParse]_vars

\* ---- C26
\* what a parser may return for a text: the stated result when the text, or
\* the text an envelope quotes, holds one; else the synthesized results
IsPlainSummary(r) ==
    r.completed /\ r.confidence = 5000 /\ r.summary.kind = "text"

IsEmptyResponse(r) ==
    ~r.completed /\ r.confidence = 0 /\ r.summary.kind = "empty_response"

\* C26: both parsers return an AgentResult for every stdout and stderr and
\* never raise: the incomplete result for blank output, else a result stated
\* in the output, else the 0.5-confidence fallback.
C26_ParsersNeverRaise ==
    (call.op \in {"_parse_claude_output", "_parse_codex_output"}
        /\ ret # NoResult) =>
        /\ ~ret.raised
        /\ IF IsEmpty(Strip(call.raw)) THEN IsEmptyResponse(ret.value)
           ELSE ret.value \in StatedResults \/ IsPlainSummary(ret.value)

\* ---- C27
\* C27: when the raw stdout given to the Claude parser is a code fence around
\* a schema-valid result object, the parser returns that result.
C27_FencedRawIsParsed ==
    (/\ call.op = "_parse_claude_output"
     /\ ret # NoResult
     /\ call.raw.kind = "fenced"
     /\ call.raw.inner.kind = "json"
     /\ IsResultShaped(call.raw.inner.value)
     /\ Validates(call.raw.inner.value)) =>
        ret = Returned(call.raw.inner.value.payload)

\* ================================ AgentDispatcher._run_subprocess

\* the timeouts a step may carry, in seconds
SubprocessTimeouts == {1, 300}

\* what the finished process leaves: exit codes and output texts
ReturnCodes == {0, 1, -9}

StdoutTexts ==
    {Blank(FALSE), Blank(TRUE), Prose(FALSE), Unloadable(FALSE)}
    \cup {Json(ResultObject(p), FALSE) : p \in StatedResults}

\* what asyncio.create_subprocess_exec may do
ExecOutcomes == {"started", "FileNotFoundError", "PermissionError"}

\* DispatchError("<agent> timed out after <timeout>s. ...")
TimeoutError(agent, timeout) ==
    [type |-> "DispatchError", kind |-> "timed_out", agent |-> agent,
     timeout |-> timeout]

\* DispatchError("<agent> exited with code <rc>. stderr=...")
ExitError(agent, rc, stderr) ==
    [type |-> "DispatchError", kind |-> "exited", agent |-> agent,
     returncode |-> rc, stderr |-> stderr]

\* DispatchError("<agent> CLI not found. ...")
NotFoundError(agent) ==
    [type |-> "DispatchError", kind |-> "not_found", agent |-> agent]

\* DispatchError("Unexpected error dispatching <agent>: <exc>")
UnexpectedError(agent, exc) ==
    [type |-> "DispatchError", kind |-> "unexpected", agent |-> agent,
     cause |-> exc]

\* lines 323-338 and the handlers of lines 340-350: what _run_subprocess does
\* with the output of a process that finished in time
AfterCommunicate(agent, rc, stdout, stderr) ==
    IF rc # 0 /\ IsEmpty(Strip(stdout))
    THEN Raised(ExitError(agent, rc, stderr))
    ELSE LET parsed == Parser(agent, stdout, stderr)
         IN IF parsed.raised
            THEN Raised(UnexpectedError(agent, parsed.exc))
            ELSE parsed

OnTimeoutNoKill(f) == [f EXCEPT !.at = "draining", !.timed_out = TRUE]

\* except asyncio.TimeoutError: proc.kill(), then await proc.communicate()
OnTimeout(f) ==
    [f EXCEPT !.at = "draining", !.timed_out = TRUE, !.log = Append(@, "kill")]

InitSubprocess ==
    /\ ctx = [commands |-> <<>>, file_paths |-> <<>>]
    /\ policy = RunPolicy(DefaultThresholds)
    /\ max_retries = 1
    /\ InitRun(<<>>)
    /\ call \in {[op |-> "_run_subprocess", agent_name |-> a, timeout |-> t] :
                   a \in {"claude", "codex"}, t \in SubprocessTimeouts}
    /\ frame = [at |-> "create", timed_out |-> FALSE, log |-> <<>>,
                returncode |-> 0, stdout |-> Blank(FALSE),
                stderr |-> Blank(FALSE)]
    /\ ret = NoResult

\* await asyncio.create_subprocess_exec(...)
CreateSubprocess(outcome) ==
    /\ call.op = "_run_subprocess"
    /\ frame.at = "create"
    /\ IF outcome = "started"
       THEN /\ frame' = [frame EXCEPT !.at = "communicate",
                                      !.log = Append(@, "exec")]
            /\ UNCHANGED ret
       ELSE /\ frame' = [frame EXCEPT !.at = "done"]
            /\ ret' = IF outcome = "FileNotFoundError"
                      THEN Raised(NotFoundError(call.agent_name))
                      ELSE Raised(UnexpectedError(call.agent_name, outcome))
    /\ fan_unchanged

\* proc.communicate() finishes within the timeout; the rest of
\* _run_subprocess has no await
CommunicateReturns(rc, out, err) ==
    /\ call.op = "_run_subprocess"
    /\ frame.at = "communicate"
    /\ frame' = [frame EXCEPT !.at = "done", !.returncode = rc,
                              !.stdout = out, !.stderr = err,
                              !.log = IF rc # 0 /\ IsEmpty(Strip(out))
                                      THEN Append(@, "communicate")
                                      ELSE @ \o <<"communicate", "parse">>]
    /\ ret' = AfterCommunicate(call.agent_name, rc, out, err)
    /\ fan_unchanged

\* asyncio.wait_for raises TimeoutError; the process is killed at once
WaitForTimesOut ==
    /\ call.op = "_run_subprocess"
    /\ frame.at = "communicate"
    /\ frame' = OnTimeout(frame)
    /\ UNCHANGED ret
    /\ fan_unchanged

\* the second proc.communicate() returns what was left in the pipes
DrainReturns(out, err) ==
    /\ call.op = "_run_subprocess"
    /\ frame.at = "draining"
    /\ frame' = [frame EXCEPT !.at = "done", !.stdout = out, !.stderr = err,
                              !.log = Append(@, "drain")]
    /\ ret' = Raised(TimeoutError(call.agent_name, call.timeout))
    /\ fan_unchanged

NextSubprocess ==
    \/ \E o \in ExecOutcomes : CreateSubprocess(o)
    \/ \E rc \in ReturnCodes, out \in StdoutTexts, err \in StderrTexts :
          CommunicateReturns(rc, out, err)
    \/ WaitForTimesOut
    \/ \E out \in StdoutTexts, err \in StderrTexts : DrainReturns(out, err)

SpecSubprocess == InitSubprocess /\ [][NextSubprocess]_vars

\* ---- C24
\* C24: once the wait for the process has timed out, the process is killed
\* before its output is drained, nothing is returned before the drain ends,
\* and the call then fails with the DispatchError that carries the timeout
\* it was given; the drained output is never parsed.
C24_TimeoutKillsDrainsThenFails ==
    (call.op = "_run_subprocess" /\ frame.timed_out) =>
        /\ \A k \in 1..Len(frame.log) : frame.log[k] # "parse"
        /\ frame.at = "draining" =>
              (ret = NoResult /\ frame.log = <<"exec", "kill">>)
        /\ ret # NoResult =>
              /\ frame.log = <<"exec", "kill", "drain">>
              /\ ret = Raised(TimeoutError(call.agent_name, call.timeout))
        /\ frame.at \in {"draining", "done"}
        /\ frame.at = "done" => ret # NoResult

C24_Witness ==
    /\ call.op = "_run_subprocess"
    /\ frame.timed_out
    /\ call.timeout = 1
    /\ ret # NoResult
    /\ ret.raised
    /\ ret.exc.kind = "timed_out"
    /\ frame.stdout \in {Json(ResultObject(p), FALSE) : p \in StatedResults}

\* ---- C25
\* C25: for a process that finished within the timeout, the call fails
\* exactly when the exit code is not 0 and stdout is blank; with a non-zero
\* exit code and other output it returns what the parser returns for that
\* output.
C25_FailsOnlyOnSilentNonZeroExit ==
    (/\ call.op = "_run_subprocess"
     /\ ret # NoResult
     /\ ~frame.timed_out
     /\ frame.log # <<>>) =>
        /\ ret.raised <=>
              (frame.returncode # 0 /\ IsEmpty(Strip(frame.stdout)))
        /\ (frame.returncode # 0 /\ ~IsEmpty(Strip(frame.stdout))) =>
              /\ ~ret.raised
              /\ ret = AfterCommunicate(call.agent_name, 0, frame.stdout,
                                        frame.stderr)

\* ======================================== AgentDispatcher.dispatch

\* the keyword parameters of dispatch_claude and of dispatch_codex
ClaudeParams == {"system_prompt", "max_turns", "timeout", "output_format"}

CodexParams == {"approval_mode", "timeout"}

\* the keyword arguments _execute_step passes to dispatch (lines 503-508)
ExecuteStepKwargs == {"max_turns", "timeout"}

\* the keyword arguments dispatch is called with: none, those of
\* _execute_step, those of ParallelDispatcher._run_task, a timeout alone
DispatchKwargSets ==
    {{}, ExecuteStepKwargs, {"system_prompt", "max_turns", "timeout"},
     {"timeout"}}

DispatchAgents == {"claude", "codex", "gpt5"}

\* dispatch (lines 239-245): the variant launched, or the exception raised;
\* a keyword the variant does not take makes the call a TypeError
Route(agent, kwargs) ==
    CASE agent = "claude" ->
            IF kwargs \subseteq ClaudeParams
            THEN [launch |-> "claude"] ELSE [raise |-> "TypeError"]
      [] agent = "codex" ->
            IF kwargs \subseteq CodexParams
            THEN [launch |-> "codex"] ELSE [raise |-> "TypeError"]
      [] OTHER -> [raise |-> "DispatchError"]

Launches(route) == "launch" \in DOMAIN route

\* what the caller gets when dispatch raises: _execute_step turns the
\* exception into a result, a direct caller sees it
OnDispatchRaise(op, exc) ==
    IF op = "_execute_step" THEN Returned(DispatchErrorResult(exc))
    ELSE Raised(exc)

InitDispatch ==
    /\ ctx = [commands |-> <<>>, file_paths |-> <<>>]
    /\ policy = RunPolicy(DefaultThresholds)
    /\ max_retries = 1
    /\ InitRun(<<>>)
    /\ call \in {[op |-> "_execute_step", agent |-> a,
                   kwargs |-> ExecuteStepKwargs] : a \in DispatchAgents}
                \cup {[op |-> "dispatch", agent |-> a, kwargs |-> k] :
                        a \in DispatchAgents, k \in DispatchKwargSets}
    /\ frame = [at |-> "dispatch", launched |-> "none"]
    /\ ret = NoResult

\* await self._dispatcher.dispatch(agent=..., prompt=..., **kwargs)
DispatchRoutes ==
    /\ call.op \in {"_execute_step", "dispatch"}
    /\ frame.at = "dispatch"
    /\ LET route == Route(call.agent, call.kwargs)
       IN IF Launches(route)
          THEN /\ frame' = [at |-> "subprocess", launched |-> route.launch]
               /\ UNCHANGED ret
          ELSE /\ frame' = [frame EXCEPT !.at = "done"]
               /\ ret' = OnDispatchRaise(call.op, route.raise)
    /\ fan_unchanged

\* the launched variant returns the parsed output
VariantReturns(r) ==
    /\ call.op \in {"_execute_step", "dispatch"}
    /\ frame.at = "subprocess"
    /\ frame' = [frame EXCEPT !.at = "done"]
    /\ ret' = Returned(r)
    /\ fan_unchanged

\* the launched variant raises DispatchError
VariantRaises(e) ==
    /\ call.op \in {"_execute_step", "dispatch"}
    /\ frame.at = "subprocess"
    /\ frame' = [frame EXCEPT !.at = "done"]
    /\ ret' = OnDispatchRaise(call.op, e)
    /\ fan_unchanged

NextDispatch ==
    \/ DispatchRoutes
    \/ \E r \in AgentOutcomes : VariantReturns(r)
    \/ \E e \in DispatchErrors : VariantRaises(e)

SpecDispatch == InitDispatch /\ [][NextDispatch]_vars

\* ---- C28
\* C28: a step with agent "codex" executed by the orchestrator launches the
\* codex variant, and its result is what that variant returned or, when the
\* variant itself failed, the dispatch-error result; it is never a failure
\* made by the routing alone.
C28_CodexStepIsLaunched ==
    (call.op = "_execute_step" /\ call.agent = "codex" /\ ret # NoResult) =>
        frame.launched = "codex"

\* ================================ the pre-check under a tripped breaker

\* circuit breakers with a limit below zero: the pre-check, which passes no
\* metrics, exceeds it with its container_count of 0
NegativeBreakers == [DefaultBreakers EXCEPT !.max_containers = -1]

PreCheckPolicies ==
    {RunPolicy(DefaultThresholds),
     [hard_stops |-> [RunHardStops EXCEPT
                         !.circuit_breakers = NegativeBreakers],
      confidence_thresholds |-> DefaultThresholds]}

PreCheckSizes == 0..2

\* the run contexts, and one with a harmless command alone
PreCheckContexts ==
    RunContexts \cup {[commands |-> <<<<"l", "s">>>>, file_paths |-> <<>>]}

\* run_pipeline on every pipeline of up to two steps, under both policies
InitPreCheck ==
    /\ ctx \in PreCheckContexts
    /\ policy \in PreCheckPolicies
    /\ max_retries \in {0, MaxRetries}
    /\ \E ss \in RunPipelines(PreCheckSizes) : InitRun(ss)
    /\ call = NoCall
    /\ ret = NoResult
    /\ frame = NoFrame

SpecPreCheck == InitPreCheck /\ [][Next]_vars

\* ---- C29
\* C29: a step whose pre-check evaluation comes out BLOCK or FAIL is not
\* dispatched, and the result of its attempt asks for escalation.
C29_BlockAndFailEscalate ==
    \A s \in DOMAIN status :
        (/\ Started(s)
         /\ PreCheckEvaluates(ctx)
         /\ PreCheck(policy, ctx).verdict \in {"block", "fail"}) =>
            /\ dispatched[s] = 0
            /\ status[s] = "finished"
            /\ produced[s].action_needed = "escalate"

\* ============================== PolicyEngine: the threshold helpers

\* should_auto_deploy_staging
ShouldAutoDeployStaging(th, c) == c >= th.auto_deploy_staging

\* should_auto_promote_prod
ShouldAutoPromoteProd(th, c) == c >= th.auto_promote_prod

ShouldNotifyHumanInclusive(th, c) == c <= th.notify_human

\* should_notify_human
ShouldNotifyHuman(th, c) == c < th.notify_human

ThresholdHelpers ==
    {"should_auto_deploy_staging", "should_auto_promote_prod",
     "should_notify_human"}

\* every helper on every confidence of the grid, under every combination of
\* thresholds of the grid
InitThresholds ==
    /\ ctx = [commands |-> <<>>, file_paths |-> <<>>]
    /\ policy \in {RunPolicy([notify_human |-> n, auto_deploy_staging |-> d,
                              auto_promote_prod |-> p]) :
                      n \in ThresholdGrid, d \in ThresholdGrid,
                      p \in ThresholdGrid}
    /\ max_retries = 1
    /\ InitRun(<<>>)
    /\ call \in {[op |-> h, confidence |-> c] :
                   h \in ThresholdHelpers, c \in ConfidenceGrid}
    /\ frame = NoFrame
    /\ ret = NoResult

ThresholdCall ==
    /\ call.op \in ThresholdHelpers
    /\ ret = NoResult
    /\ ret' = [value |->
                 CASE call.op = "should_auto_deploy_staging" ->
                         ShouldAutoDeployStaging(policy.confidence_thresholds,
                                                 call.confidence)
                   [] call.op = "should_auto_promote_prod" ->
                         ShouldAutoPromoteProd(policy.confidence_thresholds,
                                               call.confidence)
                   [] OTHER ->
                         ShouldNotifyHuman(policy.confidence_thresholds,
                                           call.confidence)]
    /\ UNCHANGED frame
    /\ fan_unchanged

NextThresholds == ThresholdCall

SpecThresholds == InitThresholds /\ [][NextThresholds]_vars

\* ---- C30
\* C30: the staging and production helpers answer true exactly from their
\* threshold upwards, the notify helper exactly below its threshold; at a
\* threshold the first two say yes and the third says no.
C30_ThresholdsAreInclusive ==
    (call.op \in ThresholdHelpers /\ ret # NoResult) =>
        LET th == policy.confidence_thresholds
            c == call.confidence
            bound == CASE call.op = "should_auto_deploy_staging" ->
                             th.auto_deploy_staging
                       [] call.op = "should_auto_promote_prod" ->
                             th.auto_promote_prod
                       [] OTHER -> th.notify_human
        IN /\ c > bound => ret.value = (call.op # "should_notify_human")
           /\ c = bound => ret.value = (call.op # "should_notify_human")
           /\ c < bound => ret.value = (call.op = "should_notify_human")

C30_Witness ==
    /\ call.op = "should_notify_human"
    /\ ret # NoResult
    /\ call.confidence = policy.confidence_thresholds.notify_human
    /\ call.confidence = policy.confidence_thresholds.auto_deploy_staging
    /\ ~ret.value

\* ------------------------------------- PolicyEngine.evaluate, called again

\* how many evaluate calls one engine receives
MaxEvaluateCalls == 3

\* the arguments of the repeated calls: harmless, vetoed and breaching ones
AgainCommands == {<<>>, <<<<"r", "m", "D", "B">>>>,
                  <<<<"l", "s">>, <<"x", "D", "B">>>>}

AgainPaths == {<<>>, <<<<"a">>, <<"s", "/", "k">>, <<"x", ".", "e">>>>}

AgainMetrics ==
    {[container_count |-> c, cost_usd |-> 0, deploys_this_hour |-> 0,
      file_deletes |-> 0] :
        c \in {DefaultBreakers.max_containers,
               DefaultBreakers.max_containers + 1}}

AgainArgs ==
    {[commands |-> cs, file_paths |-> ps, metrics |-> m] :
        cs \in AgainCommands, ps \in AgainPaths, m \in AgainMetrics}

\* a policy that remembers a breach by lowering its container limit
PolicyAfterEvaluateTightened(pol, res) ==
    IF res.breaker_violations # <<>>
    THEN [pol EXCEPT !.hard_stops.circuit_breakers.max_containers = 0]
    ELSE pol

\* self._policy after evaluate: the method only reads it
PolicyAfterEvaluate(pol, res) == pol

\* the caller's lists after evaluate: the method only iterates over them and
\* appends to lists of its own
ArgsAfterEvaluate(a) == [commands |-> a.commands, file_paths |-> a.file_paths]

\* one engine on the evaluation policy, before its first call
InitEvaluateAgain ==
    /\ ctx = [commands |-> <<>>, file_paths |-> <<>>]
    /\ policy = [hard_stops |-> EvalHardStops,
                 confidence_thresholds |-> DefaultThresholds]
    /\ max_retries = 1
    /\ InitRun(<<>>)
    /\ call = [op |-> "evaluate_again"]
    /\ frame = [history |-> <<>>]
    /\ ret = NoResult

\* one more call of engine.evaluate(**a)
EvaluateAgain(a) ==
    /\ call.op = "evaluate_again"
    /\ Len(frame.history) < MaxEvaluateCalls
    /\ LET res == Evaluate(policy, a.commands, a.file_paths,
                           a.metrics.container_count, a.metrics.cost_usd,
                           a.metrics.deploys_this_hour, a.metrics.file_deletes)
       IN /\ ret' = res
          /\ policy' = PolicyAfterEvaluate(policy, res)
          /\ frame' = [frame EXCEPT !.history =
                          Append(@, [args |-> a, result |-> res,
                                     left |-> ArgsAfterEvaluate(a)])]
    /\ UNCHANGED <<steps, ctx, max_retries, call, pc, error, resolve_vars,
                   loop_vars, step_vars, out_vars>>

NextEvaluateAgain == \E a \in AgainArgs : EvaluateAgain(a)

SpecEvaluateAgain == InitEvaluateAgain /\ [][NextEvaluateAgain]_vars

MaxRecords == 4

TurnSkills == {"lint", "test"}

\* turns_used samples: below the floor, in range, far above the ceiling
TurnSamples == {1, 6, 40}

\* the default handed to suggested_max_turns: the declared one and one below
\* the floor of the clamp
TurnDefaults == {10, 2}

\* int(x) of the quotient a / b, b > 0: truncation towards zero
TruncDiv(a, b) == IF a >= 0 THEN a \div b ELSE -((-a) \div b)

\* the samples of every skill, whatever skill is asked for
HistoryGetAny(history, skill) ==
    LET RECURSIVE All(_)
        All(ks) == IF ks = {} THEN <<>>
                   ELSE LET k == CHOOSE x \in ks : TRUE
                        IN history[k] \o All(ks \ {k})
    IN All(DOMAIN history)

\* self._history.get(skill, [])
HistoryGet(history, skill) ==
    IF skill \in DOMAIN history THEN history[skill] ELSE <<>>

\* TurnTracker.suggested_max_turns: avg * 1.5 is 3 * sum / (2 * len)
SuggestedMaxTurns(history, skill, default) ==
    LET h == HistoryGet(history, skill)
    IN IF Len(h) < 3 THEN default
       ELSE LET suggested == TruncDiv(3 * SumSeq(h), 2 * Len(h))
                lower == IF suggested < 50 THEN suggested ELSE 50
            IN IF lower > 3 THEN lower ELSE 3

\* TurnTracker(): an empty history; log lists the record calls made so far
InitTurnTracker ==
    /\ ctx = [commands |-> <<>>, file_paths |-> <<>>]
    /\ policy = RunPolicy(DefaultThresholds)
    /\ max_retries = 1
    /\ InitRun(<<>>)
    /\ call = [op |-> "turn_tracker"]
    /\ frame = [history |-> <<>>, log |-> <<>>]
    /\ ret = NoResult

\* TurnTracker.record(skill, turns_used)
Record(skill, turns_used) ==
    /\ call.op = "turn_tracker"
    /\ Len(frame.log) < MaxRecords
    /\ frame' = [history |->
                    IF skill \in DOMAIN frame.history
                    THEN [frame.history EXCEPT ![skill] = Append(@, turns_used)]
                    ELSE (skill :> <<turns_used>>) @@ frame.history,
                 log |-> Append(frame.log,
                                [skill |-> skill, turns_used |-> turns_used])]
    /\ ret' = NoResult
    /\ fan_unchanged

\* TurnTracker.suggested_max_turns(skill, default)
SuggestedMaxTurnsCall(skill, default) ==
    /\ call.op = "turn_tracker"
    /\ ret' = [skill |-> skill, default |-> default,
               value |-> SuggestedMaxTurns(frame.history, skill, default)]
    /\ UNCHANGED frame
    /\ fan_unchanged

NextTurnTracker ==
    \/ \E s \in TurnSkills, t \in TurnSamples : Record(s, t)
    \/ \E s \in TurnSkills, d \in TurnDefaults : SuggestedMaxTurnsCall(s, d)

SpecTurnTracker == InitTurnTracker /\ [][NextTurnTracker]_vars

\* the samples recorded for one skill, in the order of the record calls
SamplesOf(log, skill) ==
    LET own == SelectSeq(log, LAMBDA c : c.skill = skill)
    IN [i \in 1..Len(own) |-> own[i].turns_used]

\* C32: suggested_max_turns returns the default with fewer than 3 samples of
\* the skill, and otherwise 1.5 times the mean of that skill's samples,
\* truncated and clamped to [3, 50]; samples of other skills play no part
C32_SuggestionFollowsOwnSamples ==
    (call.op = "turn_tracker" /\ ret # NoResult) =>
        LET own == SamplesOf(frame.log, ret.skill)
            n == Len(own)
        IN /\ n < 3 => ret.value = ret.default
           /\ n >= 3 =>
                /\ ret.value \in 3..50
                /\ \E t \in 0..(2 * SumSeq(own)) :
                      /\ 2 * n * t <= 3 * SumSeq(own)
                      /\ 3 * SumSeq(own) < 2 * n * (t + 1)
                      /\ ret.value = IF t < 3 THEN 3 ELSE IF t > 50 THEN 50 ELSE t

\* 1, 6 and 6 turns for one skill and 40 for the other: 1.5 * 13 / 3 = 6.5
C32_Witness ==
    /\ call.op = "turn_tracker"
    /\ ret # NoResult
    /\ SamplesOf(frame.log, ret.skill) = <<1, 6, 6>>
    /\ \E c \in Range(frame.log) : c.skill # ret.skill /\ c.turns_used = 40
    /\ ret.value = 6

\* ------------------------------------------ _group_by_parallel on its own

\* parallel_group tags: none, two plain tags, and a tag spelt like the
\* bucket key of the ungrouped step "test"
LayerTags == {Null, "g", "h", "__solo_test"}

LayerSizes == 0..3

\* layers of distinctly named steps under every assignment of tags
TaggedLayers ==
    UNION {{[i \in 1..n |->
                [name |-> StepNameList[i], agent |-> "claude",
                 depends_on |-> <<>>, parallel_group |-> tags[i]]] :
               tags \in [1..n -> LayerTags]} : n \in LayerSizes}

InitGroup ==
    /\ ctx = [commands |-> <<>>, file_paths |-> <<>>]
    /\ policy = RunPolicy(DefaultThresholds)
    /\ max_retries = 1
    /\ InitRun(<<>>)
    /\ call \in {[op |-> "_group_by_parallel", layer |-> l] :
                    l \in TaggedLayers}
    /\ frame = NoFrame
    /\ ret = NoResult

\* a direct call of _group_by_parallel(layer)
GroupByParallelCall ==
    /\ call.op = "_group_by_parallel"
    /\ ret = NoResult
    /\ ret' = [groups |-> GroupByParallel(call.layer)]
    /\ UNCHANGED frame
    /\ fan_unchanged

NextGroup == GroupByParallelCall

SpecGroup == InitGroup /\ [][NextGroup]_vars

\* the sub-groups of the returned list that hold the step
SubGroupsOf(gs, step) ==
    {k \in 1..Len(gs) : \E m \in 1..Len(gs[k]) : gs[k][m] = step}

\* C33: _group_by_parallel returns a partition of the layer for every
\* assignment of tags: each step is in exactly one sub-group, once; two steps
\* share a sub-group exactly when they carry the same non-null tag; sub-groups
\* and their members keep the order of the layer
C33_GroupsPartitionLayer ==
    (call.op = "_group_by_parallel" /\ ret # NoResult) =>
        LET gs == ret.groups
            layer == call.layer
            Pos(step) == CHOOSE i \in 1..Len(layer) : layer[i] = step
        IN /\ \A i \in 1..Len(layer) :
                /\ Cardinality(SubGroupsOf(gs, layer[i])) = 1
                /\ \A k \in SubGroupsOf(gs, layer[i]) :
                      Cardinality({m \in 1..Len(gs[k]) :
                                      gs[k][m] = layer[i]}) = 1
           /\ \A k \in 1..Len(gs) :
                /\ gs[k] # <<>>
                /\ \A m \in 1..Len(gs[k]) : gs[k][m] \in Range(layer)
           /\ \A i, j \in 1..Len(layer) :
                i # j =>
                    ((SubGroupsOf(gs, layer[i]) = SubGroupsOf(gs, layer[j]))
                        <=> (/\ layer[i].parallel_group # Null
                             /\ layer[i].parallel_group
                                    = layer[j].parallel_group))
           /\ \A k \in 1..Len(gs) : \A m, n \in 1..Len(gs[k]) :
                m < n => Pos(gs[k][m]) < Pos(gs[k][n])
           /\ \A k, l \in 1..Len(gs) :
                k < l => Pos(gs[k][1]) < Pos(gs[l][1])

\* ----------------------------------------- run_pipeline: a blocked layer

\* five steps: the first four in one layer under every assignment of the
\* tag "checks", the fifth waiting for the first
LayerBlockPipelines ==
    {[i \in 1..5 |-> StepConfig(i, 5, {<<5, "analyze">>},
                                IF i = 5 THEN Null ELSE grp[i])] :
        grp \in [1..4 -> {Null, "checks"}]}

\* run_pipeline on those and on the small pipelines, nothing to pre-check
InitLayerBlock ==
    /\ ctx = [commands |-> <<>>, file_paths |-> <<>>]
    /\ policy = RunPolicy(DefaultThresholds)
    /\ max_retries = 0
    /\ \E ss \in LayerBlockPipelines \cup RunPipelines(VerdictSizes) :
           InitRun(ss)
    /\ call = NoCall
    /\ ret = NoResult
    /\ frame = NoFrame

SpecLayerBlock == InitLayerBlock /\ [][Next]_vars

\* the recorded result of the step escalates
RecordedEscalation(n) ==
    Recorded(n) /\ Escalates(DictGet(step_results, n))

\* (layer, sub-group) of every multi-member sub-group with an escalated member
EscalatedGroups ==
    {<<l, k>> \in (1..Len(layers)) \X (1..Len(steps)) :
        /\ k <= Len(GroupByParallel(layers[l]))
        /\ Len(GroupByParallel(layers[l])[k]) > 1
        /\ \E m \in 1..Len(GroupByParallel(layers[l])[k]) :
               RecordedEscalation(GroupByParallel(layers[l])[k][m].name)}

\* the singleton sub-groups after sub-group k of the layer that escalated
LaterEscalatedSingletons(l, k) ==
    {j \in (k + 1)..Len(GroupByParallel(layers[l])) :
        /\ Len(GroupByParallel(layers[l])[j]) = 1
        /\ RecordedEscalation(GroupByParallel(layers[l])[j][1].name)}

\* what holds of every blocked layer, however its sub-groups ended
BlockedAfterLayer(l) ==
    /\ result.blocked
    /\ Len(result.block_reasons)
           = Cardinality({n \in NamesOf(steps) : RecordedEscalation(n)})
    /\ \A n \in NamesOf(steps) :
           RecordedEscalation(n) =>
               \E i \in 1..Len(result.block_reasons) :
                   /\ result.block_reasons[i].kind = "escalated"
                   /\ result.block_reasons[i].step = n
    /\ \A j \in (l + 1)..Len(layers) :
           \A n \in NamesOf(layers[j]) : ~Started(n)

\* C34: after a multi-member sub-group with an escalated member every
\* remaining sub-group of the layer is still dispatched, and the run returns
\* blocked=True after the whole layer with one reason per escalated step,
\* no step of a later layer having been dispatched
C34_GroupBlockWaitsForLayer ==
    (call = NoCall /\ pc = "done") =>
        \A g \in EscalatedGroups :
            /\ \A n \in NamesOf(layers[g[1]]) : Started(n)
            /\ BlockedAfterLayer(g[1])

\* C34, amended: the remaining sub-groups of the layer are dispatched up to
\* the first singleton sub-group that escalates, which returns blocked=True at
\* once; without one the run returns blocked=True after the whole layer; in
\* both cases with one reason per escalated step and no step of a later layer
\* dispatched
C34_GroupBlockWaitsForLayerOrSingleton ==
    (call = NoCall /\ pc = "done") =>
        \A g \in EscalatedGroups :
            LET gs == GroupByParallel(layers[g[1]])
                later == LaterEscalatedSingletons(g[1], g[2])
            IN /\ BlockedAfterLayer(g[1])
               /\ Cardinality(later) <= 1
               /\ \A j \in 1..Len(gs) : \A m \in 1..Len(gs[j]) :
                      Started(gs[j][m].name)
                          <=> \A s \in later : j <= s

\* both members of the group escalated, the two singletons after it ran and
\* did not, and the step of the second layer was never started
C34_Witness ==
    /\ call = NoCall
    /\ pc = "done"
    /\ Len(steps) = 5
    /\ <<1, 1>> \in EscalatedGroups
    /\ Len(GroupByParallel(layers[1])) = 3
    /\ LaterEscalatedSingletons(1, 1) = {}
    /\ Len(result.block_reasons) = 2
    /\ \A n \in NamesOf(layers[1]) : Started(n) /\ Recorded(n)
    /\ ~Started("lint")
    /\ notified[Len(notified)].message = [at |-> "layer", where |-> 0]

\* -------------------------------------------- run_pipeline: the result

\* C35: every returned PipelineResult is consistent: success exactly when
\* block_reasons is empty, blocked only without success, and success only
\* when no recorded step result escalates and the confidence reaches both
\* notify_human and auto_deploy_staging
C35_ResultFieldsConsistent ==
    (call = NoCall /\ pc = "done") =>
        /\ result.success <=> result.block_reasons = <<>>
        /\ result.blocked => ~result.success
        /\ result.success =>
              /\ \A i \in 1..Len(result.step_results) :
                     result.step_results[i][2].action_needed # "escalate"
              /\ result.confidence >= policy.confidence_thresholds.notify_human
              /\ result.confidence
                     >= policy.confidence_thresholds.auto_deploy_staging

\* a successful run of two steps under thresholds given in the wrong order
C35_Witness ==
    /\ call = NoCall
    /\ pc = "done"
    /\ result.success
    /\ ~result.blocked
    /\ Len(result.step_results) = 2
    /\ policy.confidence_thresholds.notify_human
           > policy.confidence_thresholds.auto_deploy_staging
    /\ result.confidence >= policy.confidence_thresholds.notify_human

\* C36: a run that returns a PipelineResult has called the notifier exactly
\* once, after its last step execution and at its return: "deploy" exactly
\* for success, "notify" exactly for neither success nor blocked, "block"
\* exactly for blocked, with the returned confidence in the context
C36_NotifiedOnceAtReturn ==
    /\ []((call = NoCall /\ pc = "done") =>
            /\ Len(notified) = 1
            /\ notified[1].event = "deploy" <=> result.success
            /\ notified[1].event = "notify"
                   <=> (~result.success /\ ~result.blocked)
            /\ notified[1].event = "block" <=> result.blocked
            /\ notified[1].context = [confidence |-> result.confidence])
    /\ []((call = NoCall /\ notified # <<>>) => pc \in {"done", "raised"})
    /\ [][(call = NoCall /\ notified # <<>>) =>
             /\ notified' = notified
             /\ attempts' = attempts
             /\ dispatched' = dispatched
             /\ status' = status]_vars

\* a run of three steps that ends in human review, announced once
C36_Witness ==
    /\ call = NoCall
    /\ pc = "done"
    /\ Len(result.step_results) = 3
    /\ ~result.success
    /\ ~result.blocked
    /\ Len(notified) = 1
    /\ notified[1].event = "notify"
    /\ \A n \in NamesOf(steps) : status[n] = "finished"

\* ---- result objects by what they declare

\* a result object that fails the schema (a confidence outside [0, 1], an
\* unknown finding severity) while declaring completed and action_needed
InvalidResultObject(done, action) ==
    [type |-> "object", completed |-> TRUE, payload |-> NoResult,
     result |-> Absent, content |-> Absent,
     declares |-> [completed |-> done, action_needed |-> action]]

\* the "completed" and "action_needed" values written in a result object
DeclaredIn(v) ==
    IF v.payload # NoResult
    THEN [completed |-> v.payload.completed,
          action_needed |-> v.payload.action_needed]
    ELSE v.declares

DeclaringObjects ==
    {InvalidResultObject(done, action) :
        done \in BOOLEAN, action \in {"none", "retry", "escalate"}}
    \cup {ResultObject(p) :
            p \in StatedResults \cup {AgentResult(TRUE, 7000, <<>>, "escalate")}}

\* stdout holding such an object: bare, padded, fenced, quoted by an envelope
DeclaringTexts ==
    {Json(o, pad) : o \in DeclaringObjects, pad \in BOOLEAN}
    \cup {Fenced(Json(o, FALSE), FALSE) : o \in DeclaringObjects}
    \cup {Json(Envelope(JString(Json(o, FALSE)), Absent), FALSE) :
             o \in DeclaringObjects}
    \cup {Json(Envelope(JString(Fenced(Json(o, FALSE), FALSE)), Absent), FALSE) :
             o \in DeclaringObjects}

InitParseDeclared ==
    /\ ctx = [commands |-> <<>>, file_paths |-> <<>>]
    /\ policy = RunPolicy(DefaultThresholds)
    /\ max_retries = 1
    /\ InitRun(<<>>)
    /\ call \in {[op |-> op, raw |-> t, stderr |-> e] :
                   op \in {"_parse_claude_output", "_parse_codex_output"},
                   t \in DeclaringTexts, e \in StderrTexts}
    /\ frame = NoFrame
    /\ ret = NoResult

SpecParseDeclared == InitParseDeclared /\ [][NextParse]_vars

\* C37: for stdout that is a JSON object declaring completed=false or
\* action_needed="escalate", schema-valid or not, neither parser returns a
\* result with completed=true and action_needed="none"
C37_ParsingOnlyDegrades ==
    (/\ call.op \in {"_parse_claude_output", "_parse_codex_output"}
     /\ ret # NoResult
     /\ call.raw.kind = "json"
     /\ IsResultShaped(call.raw.value)
     /\ (\/ ~DeclaredIn(call.raw.value).completed
         \/ DeclaredIn(call.raw.value).action_needed = "escalate")) =>
        /\ ~ret.raised
        /\ ~(ret.value.completed /\ ret.value.action_needed = "none")

\* ---- fan_out under a fair event loop

\* the event loop runs every task that can run, and every dispatch call
\* that was started returns or raises
FanOutFairness ==
    /\ WF_vars(\E i \in 1..MaxTasks : RunTaskEnters(i))
    /\ WF_vars(\E i \in 1..MaxTasks : RunTaskResumes(i))
    /\ \A i \in 1..MaxTasks :
           WF_vars(\/ \E r \in FanOutcomes : RunTaskDispatchReturns(i, r)
                   \/ \E e \in FanErrors : RunTaskDispatchRaises(i, e))
    /\ WF_vars(FanOutReturns)

SpecFanOutFair == InitFanOut /\ [][NextFanOut]_vars /\ FanOutFairness

\* C38: with max_concurrent >= 1 and dispatch calls that end, fan_out returns
\* a FanOutResult for every task list: every exit of a task, by return or by
\* exception, releases its permit, so no waiting task waits forever
C38_FanOutEventuallyReturns ==
    (call.op = "fan_out" /\ call.max_concurrent >= 1) ~> (ret # NoResult)

\* one permit, three tasks: the first fails, the two waiters still get in
C38_Witness ==
    /\ call.op = "fan_out"
    /\ call.max_concurrent = 1
    /\ call.dispatcher
    /\ Len(call.tasks) = 3
    /\ ret # NoResult
    /\ frame.finished = <<1, 2, 3>>
    /\ ret.failed_tasks = <<call.tasks[1].task_id>>
    /\ Len(ret.results) = 3

\* ---- the blocked lists of an evaluation

\* C39: blocked_commands holds each input command that matches at least one
\* hard-stop pattern exactly once, in input order, and nothing else, also
\* when a command matches several patterns; likewise blocked_paths
C39_BlockedItemsListedOnce ==
    (call.op = "evaluate" /\ ret # NoResult) =>
        /\ ret.blocked_commands
               = SelectSeq(call.commands,
                           LAMBDA c : \E p \in Range(policy.hard_stops.commands) :
                                          IsSubstring(p, c))
        /\ ret.blocked_paths
               = SelectSeq(call.file_paths,
                           LAMBDA f :
                               \E g \in Range(policy.hard_stops.critical_paths) :
                                   MatchesGlob(f, g))

\* ---- the circuit breakers of an evaluation

\* the breakers whose metric is strictly above the limit
Breached(m, breakers) ==
    {b \in {"containers", "cost", "deploys", "file_deletes"} :
        CASE b = "containers" -> m.container_count > breakers.max_containers
          [] b = "cost" -> m.cost_usd > breakers.max_cost_per_run_usd
          [] b = "deploys" -> m.deploys_this_hour > breakers.max_deploys_per_hour
          [] b = "file_deletes" ->
                 m.file_deletes > breakers.max_file_deletes_per_turn}

\* C40: a circuit breaker is breached exactly when its metric is strictly
\* above its limit; breaker_violations has exactly one entry per breached
\* breaker, each also among the reasons; without a hard-stop match the
\* verdict is FAIL exactly when a breaker is breached
C40_BreakersTripAboveLimitOnly ==
    (call.op = "evaluate" /\ ret # NoResult) =>
        LET breached == Breached(call.metrics,
                                 policy.hard_stops.circuit_breakers)
            bv == ret.breaker_violations
        IN /\ Len(bv) = Cardinality(breached)
           /\ {bv[i].kind : i \in 1..Len(bv)} = breached
           /\ \A i \in 1..Len(bv) :
                  \E k \in 1..Len(ret.reasons) :
                      /\ ret.reasons[k].kind = "breaker"
                      /\ ret.reasons[k].breaker = bv[i]
           /\ (ret.blocked_commands = <<>> /\ ret.blocked_paths = <<>>) =>
                  (ret.verdict = "fail" <=> breached # {})

\* two metrics at their limits, two one above: two violations, verdict FAIL
C40_Witness ==
    /\ call.op = "evaluate"
    /\ ret # NoResult
    /\ call.metrics.container_count = DefaultBreakers.max_containers
    /\ call.metrics.cost_usd = DefaultBreakers.max_cost_per_run_usd + 1
    /\ call.metrics.deploys_this_hour = DefaultBreakers.max_deploys_per_hour
    /\ call.metrics.file_deletes = DefaultBreakers.max_file_deletes_per_turn + 1
    /\ Len(ret.breaker_violations) = 2
    /\ ret.blocked_commands = <<>>
    /\ ret.blocked_paths = <<>>
    /\ ret.verdict = "fail"

====
